---- MODULE Spec2Model ----
(***************************************************************************)
(* Verification model of the chess-fragments platform.                     *)
(*                                                                         *)
(* Two specifications share the variables below.                           *)
(*   SpecBridge  the two local-agent gateways (WebSocket: LocalAgentManager*)
(*               in local_agent_server.py, TCP: LocalAgentTCPServer in     *)
(*               local_agent_tcp_server.py), the Redis bus between them    *)
(*               and the worker-side LocalAgentBridge.request_move.        *)
(*   SpecRunner  the matches table, the Celery queue and run_match_task,   *)
(*               with the periodic tasks that touch match rows.            *)
(* A specification leaves the other part's variables at their initial      *)
(* value.                                                                  *)
(***************************************************************************)
EXTENDS Integers, Sequences, FiniteSets, TLC

\* ------------------------------------------------------------------ bounds
MaxSessions == 2      \* client connections opened in one behaviour
MaxRequests == 2      \* RequestMove calls issued in one behaviour
MaxRows     == 2      \* rows of local_agent_connections
MaxPlies    == 4      \* plies after which a game ends (max_moves in the source)
MaxTasks    == 2      \* run_match messages queued for one match
MaxRuns     == 2      \* worker slots executing run_match_task
MaxLost     == 1      \* worker losses in one behaviour
MaxKicks    == 2      \* schedule_round_robin messages queued at one time
MaxElapsed  == 22     \* longest time measured for one answer, in seconds
MaxCapacity == 3      \* largest match limit the executor registry reports
MaxTicks    == 2      \* runs of schedule_round_robin in progress at one time
MaxNow      == 8      \* last instant of the clock, in units of 5 s
MaxPool     == 3      \* agents one run of the agents query returns
MaxMatchRows == 2     \* rows of the matches table compute_swiss_standings reads
MaxStanding == 3      \* agents of the bracket whose standings are computed
MaxGameTime == 4      \* longest wall-clock time of one game, in units of 150 s
MaxPlyTime  == 2      \* longest time of one ply of the game clock, in units of 150 s
MaxMoveReqs == 2      \* move requests (one game each) routed by the gateways
MaxRequeues == 2      \* runs of update_all_ratings that find the match
MaxEloTasks == 2      \* runs of update_match_ratings at one time
MaxMpe      == 2      \* largest matches_per_executor a worker reports
MaxAgents   == 16     \* largest number of agents eligible for the tournament
BracketSize == 4      \* agents in the bracket that is scheduled
MaxScheds   == 2      \* runs of schedule_tournament_bracket at one time
MaxEntries  == 2      \* entries of the validation queue
MaxTesters  == 2      \* runs of test_agent_move at one time
MaxTestQ    == 1      \* messages for one queue entry in the broker
MaxCreated  == 2      \* Agent rows counted per queue entry
MaxAge      == 6      \* longest time counted since a frame, in agent timeouts

Agents   == {"X"}                       \* local agents
Games    == {"g1"}                      \* games with a local mover
GameAgent == [g \in Games |-> "X"]      \* the local mover of each game
Gateways == {"ws", "tcp"}
Sessions == 1..MaxSessions
Rids     == 1..MaxRequests
ConnStatus   == {"connected", "in_game", "draining", "disconnected"}
StatusFrames == {"draining"}     \* status values a client sends
ReplyFrames  == {"move", "timeout", "error"}
Matches  == {"m1"}                      \* match ids
MatchTypes == {"exhibition", "matchmaking"}
Runs     == 1..MaxRuns

VARIABLES
  \* persistent store and bus
  lac,          \* local_agent_connections rows, in insertion order
  presence,     \* Redis hash local_agent:{agent} field status
  matchStatus,  \* matches.status as read by is_game_active
  wsInbox,      \* pub/sub buffer of the WebSocket gateway's psubscribe
  tcpInbox,     \* pub/sub buffer of the TCP gateway's psubscribe
  inbox,        \* per request: pub/sub buffer of the waiting bridge
  \* client connections
  sess,
  \* LocalAgentManager
  wsConn, wsAuth, wsStatus, wsActive, wsPending, wsCur,
  \* LocalAgentTCPServer
  tcpConn, tcpStatus, tcpPend, tcpActive,
  \* LocalAgentBridge.request_move calls and the games issuing them
  req, gameSt,
  \* history variables (record what happened; never read by the program)
  sentTo, closedDuring

bridgeVars == <<lac, presence, matchStatus, wsInbox, tcpInbox, inbox, sess,
                wsConn, wsAuth, wsStatus, wsActive, wsPending, wsCur,
                tcpConn, tcpStatus, tcpPend, tcpActive, req, gameSt,
                sentTo, closedDuring>>

VARIABLES
  \* persistent store and task queue of the match runner
  matches,      \* matches rows: match_type, status, moves, termination
  gameStates,   \* game_states rows: move numbers stored per match
  taskQ,        \* run_match messages waiting in the Celery queue
  ratingQ,      \* update_match_ratings messages sent, per match
  kickQ,        \* schedule_round_robin messages waiting in the Celery queue
  \* workers
  runs,         \* per worker slot: the run_match_task execution in progress
  tournamentTime,           \* is_tournament_time()
  tournament_initialized,   \* _tournament_initialized
  \* history variables
  execs,        \* executions of run_match_task that found the row, per match
  shortGames,   \* matches one of whose games ended valid with <= 3 plies
  lost,         \* worker losses so far
  lastTerm,     \* termination of the last result the executor returned, per match
  skipped       \* a run of schedule_round_robin returned at its tournament check

runnerVars == <<matches, gameStates, taskQ, ratingQ, kickQ, runs,
                tournamentTime, tournament_initialized, execs, shortGames,
                lost, lastTerm, skipped>>

VARIABLES
  \* one ply of a game, as run_hybrid_match and run_match_local handle it
  ply           \* the mover's answer and what the ply loop made of it

plyVars == <<ply>>

VARIABLES
  \* the matchmaking scheduler, its agents and its capacity
  live,         \* matchmaking matches pending or in_progress, per pair of agents
  limit,        \* what get_registry().get_match_limit() returns now
  eligible,     \* agents that are active and, if local, connected
  tick,         \* per scheduler run: the local variables of schedule_round_robin
  latestLimit,  \* MAX_MATCHES as read by the run that started last
  busUp         \* whether Redis answers the scheduler's registry queries

mmVars == <<live, limit, eligible, tick, latestLimit, busUp>>

VARIABLES
  \* the executor registry in Redis and the workers that write to it
  regActive,    \* members of the set executor:registry:active
  regRecord,    \* the hash executor:registry:{worker_id}, per worker
  now,          \* the clock
  worker,       \* per worker: down or up, and its heartbeat thread
  regResult     \* what the last registry query returned

regVars == <<regActive, regRecord, now, worker, regResult>>

VARIABLES
  \* the bracket snapshot of the tournament
  total,            \* number of eligible agents: agents 1..total
  risen,            \* whether agent 1's rating has risen above all others
  bracketCache,     \* the Redis key tournament:bracket_assignments
  initialized       \* per worker process: _tournament_initialized

brVars == <<total, risen, bracketCache, initialized>>

VARIABLES
  \* the Swiss scheduling of one bracket
  bracket_id,       \* the bracket
  pairRow,           \* per pair of its agents: the tournament match row
  sched             \* per run of schedule_tournament_bracket: its locals

swVars == <<bracket_id, pairRow, sched>>

VARIABLES
  \* the validation queue and those who process it
  vqStatus,         \* per queue entry: its status column
  created,          \* per queue entry: Agent rows (with Ranking) inserted for it
  testQ,            \* per queue entry: test_agent_move messages in the broker
  tester,           \* per Celery task slot: the run of test_agent_move
  service           \* the standalone validator service: its loop

valVars == <<vqStatus, created, testQ, tester, service>>

VARIABLES
  \* one session at each gateway and the time since its frames
  hbSession

hbVars == <<hbSession>>

VARIABLES
  \* the rows one run of the agents query returned, and the pair one pairing
  \* iteration chose from them
  pool,
  matched

pairVars == <<pool, matched>>

VARIABLES
  \* rows of the matches table as compute_swiss_standings reads them, and
  \* the standings one call returned
  matchRows,
  standings

stVars == <<matchRows, standings>>

VARIABLES
  \* one game as the ply loop of an executor sees it: the path that runs it,
  \* the wall-clock time since it started, the plies begun and its result
  gameClock

clockVars == <<gameClock>>

VARIABLES
  \* two local agents at the gateways: the gateway each is connected to, and
  \* the move requests of their games
  connectedAt,
  moveReq

routeVars == <<connectedAt, moveReq>>

VARIABLES
  \* one rated match with its two agents' rankings rows, the
  \* update_match_ratings messages queued for it and the runs of that task
  ratedMatch,
  eloQ,
  eloTask,
  rankings,
  requeued      \* history: times update_all_ratings has queued the match

ratingVars == <<ratedMatch, eloQ, eloTask, rankings, requeued>>

nonBridgeVars ==
  <<runnerVars, plyVars, mmVars, regVars, brVars, swVars, valVars, hbVars,
    pairVars, stVars, clockVars, routeVars, ratingVars>>
nonRunnerVars ==
  <<bridgeVars, plyVars, mmVars, regVars, brVars, swVars, valVars, hbVars,
    pairVars, stVars, clockVars, routeVars, ratingVars>>
nonPlyVars ==
  <<bridgeVars, runnerVars, mmVars, regVars, brVars, swVars, valVars,
    hbVars, pairVars, stVars, clockVars, routeVars, ratingVars>>
nonMmVars ==
  <<bridgeVars, runnerVars, plyVars, regVars, brVars, swVars, valVars,
    hbVars, pairVars, stVars, clockVars, routeVars, ratingVars>>
nonRegVars ==
  <<bridgeVars, runnerVars, plyVars, mmVars, brVars, swVars, valVars,
    hbVars, pairVars, stVars, clockVars, routeVars, ratingVars>>
nonBrVars ==
  <<bridgeVars, runnerVars, plyVars, mmVars, regVars, swVars, valVars,
    hbVars, pairVars, stVars, clockVars, routeVars, ratingVars>>
nonSwVars ==
  <<bridgeVars, runnerVars, plyVars, mmVars, regVars, brVars, valVars,
    hbVars, pairVars, stVars, clockVars, routeVars, ratingVars>>
nonValVars ==
  <<bridgeVars, runnerVars, plyVars, mmVars, regVars, brVars, swVars,
    hbVars, pairVars, stVars, clockVars, routeVars, ratingVars>>
nonHbVars ==
  <<bridgeVars, runnerVars, plyVars, mmVars, regVars, brVars, swVars,
    valVars, pairVars, stVars, clockVars, routeVars, ratingVars>>
nonPairVars ==
  <<bridgeVars, runnerVars, plyVars, mmVars, regVars, brVars, swVars,
    valVars, hbVars, stVars, clockVars, routeVars, ratingVars>>
nonStVars ==
  <<bridgeVars, runnerVars, plyVars, mmVars, regVars, brVars, swVars,
    valVars, hbVars, pairVars, clockVars, routeVars, ratingVars>>
nonClockVars ==
  <<bridgeVars, runnerVars, plyVars, mmVars, regVars, brVars, swVars,
    valVars, hbVars, pairVars, stVars, routeVars, ratingVars>>
nonRouteVars ==
  <<bridgeVars, runnerVars, plyVars, mmVars, regVars, brVars, swVars,
    valVars, hbVars, pairVars, stVars, clockVars, ratingVars>>
nonRatingVars ==
  <<bridgeVars, runnerVars, plyVars, mmVars, regVars, brVars, swVars,
    valVars, hbVars, pairVars, stVars, clockVars, routeVars>>

vars ==
  <<bridgeVars, runnerVars, plyVars, mmVars, regVars, brVars, swVars,
    valVars, hbVars, pairVars, stVars, clockVars, routeVars, ratingVars>>

\* ------------------------------------------------------------- helpers
Rep(m, k) == [i \in 1..k |-> m]

NonDisconnected(rows, a) ==
  {i \in DOMAIN rows : rows[i].agent = a /\ rows[i].status # "disconnected"}

UsedSessions == {s \in Sessions : sess[s].st # "unused"}
UsedRids     == {r \in Rids : req[r].st # "unused"}

\* an authenticated session whose socket is open, in its message loop
Open(s) == sess[s].st = "auth"

\* a session that has passed authentication and has not been closed
Authenticated(s) == sess[s].st \in {"connecting", "auth"}

is_game_active(g) == matchStatus[g] \in {"pending", "in_progress"}

\* redis publish on move_response:{request_id}: delivered only while the
\* bridge is subscribed, i.e. while request_move is still in its wait loop
PublishReply(inb, r, type) ==
  IF req[r].st = "waiting"
  THEN [inb EXCEPT ![r] = Append(@, [chan |-> "reply", type |-> type])]
  ELSE inb

\* redis publish on local_agent:{agent}:disconnect, once per active game:
\* delivered to every bridge waiting on a move of that agent
PublishDisconnect(inb, a, k) ==
  [r \in Rids |->
     IF req[r].st = "waiting" /\ req[r].agent = a
     THEN inb[r] \o Rep([chan |-> "disc", type |-> "disconnect"], k)
     ELSE inb[r]]

\* a session of agent a ends while a RequestMove for a waits unanswered
MarkClosed(a) ==
  closedDuring' = [r \in Rids |->
      closedDuring[r] \/
      (req[r].st = "waiting" /\ req[r].agent = a /\ inbox[r] = <<>>)]

\* ------------------------------------------- WebSocket gateway: database
\* LocalAgentManager.update_connection_status, the SQL part
ws_update_rows(rows, a, status) ==
  CASE status = "connected" ->
         Append([i \in DOMAIN rows |->
                   IF rows[i].agent = a /\ rows[i].status # "disconnected"
                   THEN [rows[i] EXCEPT !.status = "disconnected"]
                   ELSE rows[i]],
                [agent |-> a, ctype |-> "websocket", status |-> "connected"])
    [] status \in {"disconnected", "in_game", "draining"} ->
         [i \in DOMAIN rows |->
            IF rows[i].agent = a
            THEN [rows[i] EXCEPT !.status = status]
            ELSE rows[i]]
    [] OTHER -> rows

\* LocalAgentManager.update_connection_status: SQL, Redis cache, agent_status
ws_update_connection_status(a, status) ==
  /\ status = "connected" => Len(lac) < MaxRows
  /\ lac' = ws_update_rows(lac, a, status)
  /\ presence' = [presence EXCEPT ![a] = status]
  /\ wsStatus' = [wsStatus EXCEPT ![a] =
                    IF status = "disconnected" THEN "none" ELSE status]

\* LocalAgentManager.handle_disconnect (state of the manager, store and bus)
ws_handle_disconnect(a) ==
  LET k == Cardinality({g \in wsActive[a] : is_game_active(g)}) IN
  /\ wsConn' = [wsConn EXCEPT ![a] = 0]
  /\ wsAuth' = wsAuth \ {a}
  /\ ws_update_connection_status(a, "disconnected")
  /\ wsPending' = [g \in Games |->
                     IF wsPending[g] = "pending" THEN "disconnected"
                     ELSE wsPending[g]]
  /\ wsActive' = [wsActive EXCEPT ![a] = {}]
  /\ inbox' = PublishDisconnect(inbox, a, k)

\* ------------------------------------------- WebSocket gateway: sessions
\* handle_client + handle_connect up to the first suspension point.  With no
\* registered connection for the agent nothing is awaited before the
\* registration, so the whole of handle_connect is one step; otherwise the
\* old socket is told to close and handle_connect is suspended in
\* old_ws.close().
ws_handle_connect(s, a) ==
  /\ s = Cardinality(UsedSessions) + 1
  /\ s \in Sessions
  /\ IF wsConn[a] = 0
     THEN /\ sess' = [sess EXCEPT ![s] = [gw |-> "ws", agent |-> a, st |-> "auth"]]
          /\ wsConn' = [wsConn EXCEPT ![a] = s]
          /\ wsAuth' = wsAuth \cup {a}
          /\ ws_update_connection_status(a, "connected")
          /\ UNCHANGED <<closedDuring>>
     ELSE /\ sess' = [sess EXCEPT
                 ![s] = [gw |-> "ws", agent |-> a, st |-> "connecting"],
                 ![wsConn[a]] = [@ EXCEPT !.st =
                                   IF @ = "auth" THEN "closed" ELSE @]]
          /\ IF Open(wsConn[a]) THEN MarkClosed(a)
             ELSE UNCHANGED closedDuring
          /\ UNCHANGED <<wsConn, wsAuth, lac, presence, wsStatus>>
  /\ UNCHANGED <<matchStatus, wsInbox, tcpInbox, inbox, wsActive, wsPending,
                 wsCur, tcpConn, tcpStatus, tcpPend, tcpActive, req, gameSt,
                 sentTo>>
  /\ UNCHANGED nonBridgeVars

\* handle_connect resumed after old_ws.close(): register and mark connected
ws_handle_connect_register(s) ==
  /\ sess[s].st = "connecting"
  /\ LET a == sess[s].agent IN
     /\ sess' = [sess EXCEPT ![s].st = "auth"]
     /\ wsConn' = [wsConn EXCEPT ![a] = s]
     /\ wsAuth' = wsAuth \cup {a}
     /\ ws_update_connection_status(a, "connected")
  /\ UNCHANGED <<matchStatus, wsInbox, tcpInbox, inbox, wsActive, wsPending,
                 wsCur, tcpConn, tcpStatus, tcpPend, tcpActive, req, gameSt,
                 sentTo, closedDuring>>
  /\ UNCHANGED nonBridgeVars

\* the client side closes its connection
client_close(s) ==
  /\ Open(s)
  /\ sess' = [sess EXCEPT ![s].st = "closed"]
  /\ MarkClosed(sess[s].agent)
  /\ UNCHANGED <<lac, presence, matchStatus, wsInbox, tcpInbox, inbox,
                 wsConn, wsAuth, wsStatus, wsActive, wsPending, wsCur,
                 tcpConn, tcpStatus, tcpPend, tcpActive, req, gameSt,
                 sentTo>>
  /\ UNCHANGED nonBridgeVars

\* handle_client, the finally block of a session whose socket has closed
ws_handle_client_finally(s) ==
  /\ sess[s].gw = "ws" /\ sess[s].st = "closed"
  /\ sess' = [sess EXCEPT ![s].st = "done"]
  /\ ws_handle_disconnect(sess[s].agent)
  /\ UNCHANGED <<matchStatus, wsInbox, tcpInbox, wsCur, tcpConn, tcpStatus,
                 tcpPend, tcpActive, req, gameSt, sentTo, closedDuring>>
  /\ UNCHANGED nonBridgeVars

\* monitor_heartbeats: HEARTBEAT_TIMEOUT has passed since the agent's last
\* heartbeat frame (handle_heartbeat only refreshes that time stamp); close
\* the registered connection and handle the disconnect
ws_monitor_heartbeats(a) ==
  /\ wsConn[a] # 0
  /\ sess' = [sess EXCEPT ![wsConn[a]].st = IF @ = "auth" THEN "closed" ELSE @]
  /\ IF Open(wsConn[a]) THEN MarkClosed(a) ELSE UNCHANGED closedDuring
  /\ ws_handle_disconnect(a)
  /\ UNCHANGED <<matchStatus, wsInbox, tcpInbox, wsCur, tcpConn, tcpStatus,
                 tcpPend, tcpActive, req, gameSt, sentTo>>
  /\ UNCHANGED nonBridgeVars

\* handle_status: a status frame from the client
ws_handle_status(s, status) ==
  /\ sess[s].gw = "ws" /\ Open(s)
  /\ ws_update_connection_status(sess[s].agent, status)
  /\ UNCHANGED <<matchStatus, wsInbox, tcpInbox, inbox, sess, wsConn, wsAuth,
                 wsActive, wsPending, wsCur, tcpConn, tcpStatus,
                 tcpPend, tcpActive, req, gameSt, sentTo, closedDuring>>
  /\ UNCHANGED nonBridgeVars

\* --------------------------------------- WebSocket gateway: move routing
\* redis_listener: one message of the psubscribe buffer.  The listener awaits
\* handle_redis_move_request, so it takes no further message while a move
\* request is being served (wsCur # 0).
ws_redis_listener ==
  /\ wsCur = 0
  /\ wsInbox # <<>>
  /\ wsInbox' = Tail(wsInbox)
  /\ LET m == Head(wsInbox) IN
     IF m.kind = "end"
     THEN \* forward_notification, game_end
          /\ wsActive' = [wsActive EXCEPT ![m.agent] = @ \ {m.game}]
          /\ UNCHANGED <<lac, presence, wsStatus, wsPending, wsCur, inbox,
                         sentTo>>
     ELSE LET r == m.rid
              a == req[r].agent
              g == req[r].game IN
          IF wsConn[a] = 0
          THEN \* not connected to this server: ignored
               UNCHANGED <<lac, presence, wsStatus, wsActive, wsPending,
                           wsCur, inbox, sentTo>>
          ELSE IF a \notin wsAuth
          THEN \* request_move returns the disconnected result at once
               /\ inbox' = PublishReply(inbox, r, "disconnected")
               /\ wsActive' = [wsActive EXCEPT ![a] = @ \ {g}]
               /\ UNCHANGED <<lac, presence, wsStatus, wsPending, wsCur,
                              sentTo>>
          ELSE IF ~Open(wsConn[a])
          THEN \* websocket.send raises on the closed socket: request_move
               \* returns None, answered as disconnected
               /\ ws_update_connection_status(a, "in_game")
               /\ inbox' = PublishReply(inbox, r, "disconnected")
               /\ wsActive' = [wsActive EXCEPT ![a] = @ \ {g}]
               /\ UNCHANGED <<wsPending, wsCur, sentTo>>
          ELSE \* request_move sends the request and waits on the future
               /\ ws_update_connection_status(a, "in_game")
               /\ wsActive' = [wsActive EXCEPT ![a] = @ \cup {g}]
               /\ wsPending' = [wsPending EXCEPT ![g] = "pending"]
               /\ wsCur' = r
               /\ sentTo' = [sentTo EXCEPT ![r] = @ \cup {wsConn[a]}]
               /\ UNCHANGED <<inbox>>
  /\ UNCHANGED <<matchStatus, tcpInbox, sess, wsConn, wsAuth, tcpConn,
                 tcpStatus, tcpPend, tcpActive, req, gameSt, closedDuring>>
  /\ UNCHANGED nonBridgeVars

\* handle_move / handle_timeout / handle_error: a reply frame of a client
\* naming the game of a request it was sent; resolves pending_moves[game_id]
ws_handle_move(s, r, type) ==
  /\ sess[s].gw = "ws" /\ Open(s)
  /\ s \in sentTo[r]
  /\ wsPending[req[r].game] = "pending"
  /\ wsPending' = [wsPending EXCEPT ![req[r].game] = type]
  /\ UNCHANGED <<lac, presence, matchStatus, wsInbox, tcpInbox, inbox, sess,
                 wsConn, wsAuth, wsStatus, wsActive, wsCur, tcpConn,
                 tcpStatus, tcpPend, tcpActive, req, gameSt, sentTo,
                 closedDuring>>
  /\ UNCHANGED nonBridgeVars

\* request_move after the wait on the future (result or asyncio.TimeoutError)
\* and the rest of handle_redis_move_request
ws_request_move_done ==
  /\ wsCur # 0
  /\ LET r == wsCur
         a == req[r].agent
         g == req[r].game
         res == IF wsPending[g] = "pending" THEN "timeout" ELSE wsPending[g]
         new_status == IF wsStatus[a] = "draining" THEN "draining"
                       ELSE "connected" IN
     /\ IF res # "disconnected" /\ wsConn[a] # 0
        THEN ws_update_connection_status(a, new_status)
        ELSE UNCHANGED <<lac, presence, wsStatus>>
     /\ inbox' = PublishReply(inbox, r, res)
     /\ wsActive' = IF res = "disconnected"
                    THEN [wsActive EXCEPT ![a] = @ \ {g}]
                    ELSE wsActive
     /\ wsPending' = [wsPending EXCEPT ![g] = "none"]
     /\ wsCur' = 0
  /\ UNCHANGED <<matchStatus, wsInbox, tcpInbox, sess, wsConn, wsAuth, tcpConn, tcpStatus, tcpPend, tcpActive, req, gameSt, sentTo,
                 closedDuring>>
  /\ UNCHANGED nonBridgeVars

\* ------------------------------------------------------------ TCP gateway
\* LocalAgentTCPServer.update_connection_status, the SQL part
tcp_update_rows(rows, a, status) ==
  CASE status = "connected" ->
         Append([i \in DOMAIN rows |->
                   IF rows[i].agent = a /\ rows[i].status # "disconnected"
                   THEN [rows[i] EXCEPT !.status = "disconnected"]
                   ELSE rows[i]],
                [agent |-> a, ctype |-> "p2p", status |-> "connected"])
    [] status \in {"in_game", "draining"} ->
         [i \in DOMAIN rows |->
            IF rows[i].agent = a /\ rows[i].ctype = "p2p"
            THEN [rows[i] EXCEPT !.status = status]
            ELSE rows[i]]
    [] OTHER ->
         [i \in DOMAIN rows |->
            IF rows[i].agent = a /\ rows[i].status = "connected"
               /\ rows[i].ctype = "p2p"
            THEN [rows[i] EXCEPT !.status = "disconnected"]
            ELSE rows[i]]

\* LocalAgentTCPServer.update_connection_status: SQL and agent_status (this
\* gateway writes nothing to the Redis hash local_agent:{agent})
tcp_update_connection_status(a, status, cur) ==
  /\ status = "connected" => Len(lac) < MaxRows
  /\ lac' = tcp_update_rows(lac, a, status)
  /\ tcpStatus' = [cur EXCEPT ![a] =
                     IF status \in {"connected", "in_game", "draining"}
                     THEN status
                     ELSE IF status = "disconnected" THEN "none" ELSE @]

\* handle_client up to the message loop: verify_agent, store the writer,
\* mark connected.  An earlier writer of the same agent is overwritten, its
\* connection is left open.
tcp_handle_client(s, a) ==
  /\ s = Cardinality(UsedSessions) + 1
  /\ s \in Sessions
  /\ sess' = [sess EXCEPT ![s] = [gw |-> "tcp", agent |-> a, st |-> "auth"]]
  /\ tcpConn' = [tcpConn EXCEPT ![a] = s]
  /\ tcp_update_connection_status(a, "connected", tcpStatus)
  /\ IF tcpConn[a] # 0 /\ Open(tcpConn[a]) THEN MarkClosed(a)
     ELSE UNCHANGED closedDuring
  /\ UNCHANGED <<presence, matchStatus, wsInbox, tcpInbox, inbox, wsConn,
                 wsAuth, wsStatus, wsActive, wsPending, wsCur, tcpPend,
                 tcpActive, req, gameSt, sentTo>>
  /\ UNCHANGED nonBridgeVars

\* handle_message, types move / timeout / error: answer the pending request
\* named by requestId on its response channel and forget it
tcp_handle_message(s, r, type) ==
  /\ sess[s].gw = "tcp" /\ Open(s)
  /\ s \in sentTo[r]
  /\ r \in tcpPend
  /\ inbox' = PublishReply(inbox, r, type)
  /\ tcpPend' = tcpPend \ {r}
  /\ UNCHANGED <<lac, presence, matchStatus, wsInbox, tcpInbox, sess, wsConn,
                 wsAuth, wsStatus, wsActive, wsPending, wsCur, tcpConn,
                 tcpStatus, tcpActive, req, gameSt, sentTo, closedDuring>>
  /\ UNCHANGED nonBridgeVars

\* handle_status
tcp_handle_status(s, status) ==
  /\ sess[s].gw = "tcp" /\ Open(s)
  /\ tcp_update_connection_status(sess[s].agent, status,
                                  [tcpStatus EXCEPT ![sess[s].agent] = status])
  /\ UNCHANGED <<presence, matchStatus, wsInbox, tcpInbox, inbox, sess,
                 wsConn, wsAuth, wsStatus, wsActive, wsPending, wsCur,
                 tcpConn, tcpPend, tcpActive, req, gameSt, sentTo,
                 closedDuring>>
  /\ UNCHANGED nonBridgeVars

\* forward_redis_to_agent: one message of the psubscribe buffer
tcp_forward_redis_to_agent ==
  /\ tcpInbox # <<>>
  /\ tcpInbox' = Tail(tcpInbox)
  /\ LET m == Head(tcpInbox) IN
     IF m.kind = "end"
     THEN /\ tcpActive' = [tcpActive EXCEPT ![m.agent] = @ \ {m.game}]
          /\ UNCHANGED <<tcpPend, sentTo>>
     ELSE LET r == m.rid
              a == req[r].agent
              g == req[r].game IN
          IF tcpConn[a] = 0
          THEN UNCHANGED <<tcpActive, tcpPend, sentTo>>
          ELSE /\ tcpPend' = tcpPend \cup {r}
               /\ tcpActive' = [tcpActive EXCEPT ![a] = @ \cup {g}]
               \* writer.write reaches the client only on an open socket
               /\ sentTo' = IF Open(tcpConn[a])
                            THEN [sentTo EXCEPT ![r] = @ \cup {tcpConn[a]}]
                            ELSE sentTo
  /\ UNCHANGED <<lac, presence, matchStatus, wsInbox, inbox, sess, wsConn,
                 wsAuth, wsStatus, wsActive, wsPending, wsCur, tcpConn,
                 tcpStatus, req, gameSt, closedDuring>>
  /\ UNCHANGED nonBridgeVars

\* handle_client, the finally block after EOF: notify_pending_disconnect,
\* drop the agent's writer and mark disconnected
tcp_handle_client_finally(s) ==
  /\ sess[s].gw = "tcp" /\ sess[s].st = "closed"
  /\ LET a == sess[s].agent
         owned == {r \in tcpPend : req[r].agent = a}
         k == Cardinality({g \in tcpActive[a] : is_game_active(g)}) IN
     /\ sess' = [sess EXCEPT ![s].st = "done"]
     /\ inbox' = PublishDisconnect(
                   [r \in Rids |->
                      IF r \in owned /\ req[r].st = "waiting"
                      THEN Append(inbox[r],
                                  [chan |-> "reply", type |-> "disconnected"])
                      ELSE inbox[r]], a, k)
     /\ tcpPend' = tcpPend \ owned
     /\ tcpActive' = [tcpActive EXCEPT ![a] = {}]
     /\ tcpConn' = [tcpConn EXCEPT ![a] = 0]
     /\ tcp_update_connection_status(a, "disconnected",
                                     [tcpStatus EXCEPT ![a] = "none"])
  /\ UNCHANGED <<presence, matchStatus, wsInbox, tcpInbox, wsConn, wsAuth,
                 wsStatus, wsActive, wsPending, wsCur, req, gameSt,
                 sentTo, closedDuring>>
  /\ UNCHANGED nonBridgeVars

\* ------------------------------------------------ worker side: the bridge
\* LocalAgentBridge.request_move up to the wait loop, called by the ply loop
\* of run_hybrid_match for a local mover: fresh request id, subscribe, publish
\* on local_agent:{agent}:move_request (both gateways are pattern-subscribed)
request_move(g) ==
  /\ gameSt[g] = "idle"
  /\ Cardinality(UsedRids) < MaxRequests
  /\ LET r == Cardinality(UsedRids) + 1
         m == [kind |-> "req", rid |-> r, agent |-> GameAgent[g], game |-> g] IN
     /\ req' = [req EXCEPT ![r] = [agent |-> GameAgent[g], game |-> g,
                                   st |-> "waiting", outcome |-> "none",
                                   via |-> "none", held |-> FALSE,
                                   noReply |-> FALSE]]
     /\ wsInbox' = Append(wsInbox, m)
     /\ tcpInbox' = Append(tcpInbox, m)
  /\ gameSt' = [gameSt EXCEPT ![g] = "waiting"]
  /\ UNCHANGED <<lac, presence, matchStatus, inbox, sess, wsConn, wsAuth,
                 wsStatus, wsActive, wsPending, wsCur, tcpConn,
                 tcpStatus, tcpPend, tcpActive, sentTo, closedDuring>>
  /\ UNCHANGED nonBridgeVars

\* what the wait loop of request_move does with one message
RequestOutcome(m) ==
  IF m.chan = "disc" THEN "disconnected"     \* raise AgentDisconnectedError
  ELSE CASE m.type = "move"         -> "move"      \* (move, elapsed, False)
         [] m.type = "timeout"      -> "timeout"   \* (None, elapsed, True)
         [] m.type = "error"        -> "error"     \* (None, elapsed, False)
         [] m.type = "disconnected" -> "disconnected"

\* run_hybrid_match after get_agent_move: a move continues the game or ends
\* it (checkmate, stalemate); everything else ends it.  At the end
\* notify_game_end is published to the local agent's notification channel.
GameAfter(g, outcome, goOn) ==
  IF outcome = "move" /\ goOn
  THEN /\ gameSt' = [gameSt EXCEPT ![g] = "idle"]
       /\ UNCHANGED <<wsInbox, tcpInbox>>
  ELSE LET m == [kind |-> "end", rid |-> 0, agent |-> GameAgent[g],
                 game |-> g] IN
       /\ gameSt' = [gameSt EXCEPT ![g] = "ended"]
       /\ wsInbox' = Append(wsInbox, m)
       /\ tcpInbox' = Append(tcpInbox, m)

\* request_move with the return after an accepted move left out: the loop
\* goes on reading and a later message replaces the move
request_move_recv_no_return(r, goOn) ==
  /\ req[r].st = "waiting"
  /\ inbox[r] # <<>>
  /\ LET out == RequestOutcome(Head(inbox[r])) IN
     IF out = "move"
     THEN /\ req' = [req EXCEPT ![r].outcome = out,
                                ![r].via = Head(inbox[r]).chan]
          /\ inbox' = [inbox EXCEPT ![r] = Tail(@)]
          /\ UNCHANGED <<gameSt, wsInbox, tcpInbox>>
     ELSE /\ req' = [req EXCEPT ![r].st = "done", ![r].outcome = out,
                                ![r].via = Head(inbox[r]).chan]
          /\ GameAfter(req[r].game, out, goOn)
          /\ inbox' = [inbox EXCEPT ![r] = <<>>]
  /\ UNCHANGED <<lac, presence, matchStatus, sess, wsConn, wsAuth, wsStatus,
                 wsActive, wsPending, wsCur, tcpConn, tcpStatus,
                 tcpPend, tcpActive, sentTo, closedDuring>>
  /\ UNCHANGED nonBridgeVars

\* request_move, wait loop: the first message on either channel decides
request_move_recv(r, goOn) ==
  /\ req[r].st = "waiting"
  /\ inbox[r] # <<>>
  /\ LET out == RequestOutcome(Head(inbox[r])) IN
     /\ req' = [req EXCEPT ![r].st = "done", ![r].outcome = out,
                           ![r].via = Head(inbox[r]).chan]
     /\ GameAfter(req[r].game, out, goOn)
  /\ inbox' = [inbox EXCEPT ![r] = <<>>]      \* unsubscribe
  /\ UNCHANGED <<lac, presence, matchStatus, sess, wsConn, wsAuth, wsStatus,
                 wsActive, wsPending, wsCur, tcpConn, tcpStatus,
                 tcpPend, tcpActive, sentTo, closedDuring>>
  /\ UNCHANGED nonBridgeVars

\* request_move, MOVE_TIMEOUT reached: read the presence hash
request_move_expire(r) ==
  /\ req[r].st = "waiting"
  /\ LET a == req[r].agent
         out == IF presence[a] \in {"connected", "in_game"}
                THEN "timeout" ELSE "disconnected" IN
     /\ req' = [req EXCEPT ![r].st = "done", ![r].outcome = out,
                           ![r].via = "expiry",
                           ![r].held = \E s \in Sessions :
                                          sess[s].agent = a /\ Authenticated(s),
                           ![r].noReply = (inbox[r] = <<>>)]
     /\ GameAfter(req[r].game, out, FALSE)
  /\ inbox' = [inbox EXCEPT ![r] = <<>>]
  /\ UNCHANGED <<lac, presence, matchStatus, sess, wsConn, wsAuth, wsStatus,
                 wsActive, wsPending, wsCur, tcpConn, tcpStatus,
                 tcpPend, tcpActive, sentTo, closedDuring>>
  /\ UNCHANGED nonBridgeVars

\* ------------------------------------------------------------ match runner
\* run_match_task passes on_move_callback to run_hybrid_match and to
\* run_match_local, and neither declares that parameter, so the call raises
\* TypeError as the code stands.  The model keeps both outcomes of the call
\* step: it raises (run_match_task_raises, the except handler) or it plays the
\* game (run_hybrid_match_turn, run_hybrid_match_reply) and returns a result
\* (run_match_task_finish).  Safety properties shown here therefore cover the
\* code as written and the code with the call repaired.

NoRun == [m |-> "none", pc |-> "idle", moves |-> 0]

RowExists(m) == matches[m].status \notin {"absent", "deleted"}

\* the runs executing match m
RunsOf(m) == {k \in Runs : runs[k].m = m}

is_error(term) ==
  term \in {"error", "white_error", "black_error", "system_error", "stuck_timeout"}

is_short_game_two(moves) == moves <= 2

is_short_game(moves) == moves <= 3

\* DELETE FROM game_states / DELETE FROM matches for one match id
DeleteMatch(m) ==
  /\ matches' = [matches EXCEPT ![m] =
                   IF RowExists(m)
                   THEN [@ EXCEPT !.status = "deleted", !.moves = 0,
                                  !.term = "none"]
                   ELSE @]
  /\ gameStates' = [gameStates EXCEPT ![m] = {}]

\* schedule_round_robin.delay() if not is_tournament_time(), issued by
\* run_match_task and cleanup_stuck_matches for a matchmaking match
Kick_never(type) == UNCHANGED kickQ

Kick(type) ==
  IF type = "matchmaking" /\ ~tournamentTime
  THEN kickQ < MaxKicks /\ kickQ' = kickQ + 1
  ELSE UNCHANGED kickQ

\* schedule_round_robin without its tournament check
schedule_round_robin_unchecked(m, kicked) ==
  /\ kicked => kickQ > 0
  /\ kickQ' = IF kicked THEN kickQ - 1 ELSE kickQ
  /\ IF matches[m].match_type = "matchmaking"
        /\ matches[m].status = "absent" /\ taskQ[m] < MaxTasks
     THEN /\ matches' = [matches EXCEPT ![m].status = "pending"]
          /\ taskQ' = [taskQ EXCEPT ![m] = @ + 1]
     ELSE kicked /\ UNCHANGED <<matches, taskQ>>
  /\ UNCHANGED <<gameStates, ratingQ, runs, tournamentTime,
                 tournament_initialized, execs, shortGames, lost>>
  /\ UNCHANGED <<lastTerm, skipped>>
  /\ UNCHANGED nonRunnerVars

\* schedule_round_robin, run by matchmaking_tick (kicked = FALSE) or taken
\* from the queue (kicked = TRUE): returns at once in tournament mode, else
\* inserts a pending matchmaking row and queues its task when a pair and a
\* slot are found
schedule_round_robin(m, kicked) ==
  /\ kicked => kickQ > 0
  /\ kickQ' = IF kicked THEN kickQ - 1 ELSE kickQ
  /\ IF tournamentTime
     THEN skipped' = TRUE /\ UNCHANGED <<matches, taskQ>>
     ELSE IF matches[m].match_type = "matchmaking"
             /\ matches[m].status = "absent" /\ taskQ[m] < MaxTasks
     THEN /\ matches' = [matches EXCEPT ![m].status = "pending"]
          /\ taskQ' = [taskQ EXCEPT ![m] = @ + 1]
          /\ UNCHANGED skipped
     ELSE kicked /\ UNCHANGED <<matches, taskQ, skipped>>
  /\ UNCHANGED <<gameStates, ratingQ, runs, tournamentTime,
                 tournament_initialized, execs, shortGames, lost>>
  /\ UNCHANGED lastTerm
  /\ UNCHANGED nonRunnerVars

\* schedule_exhibition_matches: queues a task for every pending exhibition row
schedule_exhibition_matches ==
  /\ ~tournamentTime
  /\ LET P == {m \in Matches : matches[m].match_type = "exhibition"
                               /\ matches[m].status = "pending"} IN
     /\ P # {}
     /\ \A m \in P : taskQ[m] < MaxTasks
     /\ taskQ' = [m \in Matches |-> IF m \in P THEN taskQ[m] + 1 ELSE taskQ[m]]
  /\ UNCHANGED <<matches, gameStates, ratingQ, runs, tournamentTime,
                 tournament_initialized, execs, shortGames, lost>>
  /\ UNCHANGED kickQ
  /\ UNCHANGED lastTerm
  /\ UNCHANGED skipped
  /\ UNCHANGED nonRunnerVars

\* run_match_task up to the call of the executor: existence check, the
\* UPDATE to in_progress, the insert of game state 0.  Worker slots are
\* interchangeable: the free slot of least index takes the message.
run_match_task(k, m) ==
  /\ runs[k].pc = "idle"
  /\ \A j \in Runs : j < k => runs[j].pc # "idle"
  /\ taskQ[m] > 0
  /\ taskQ' = [taskQ EXCEPT ![m] = @ - 1]
  /\ IF RowExists(m)
     THEN /\ matches' = [matches EXCEPT ![m].status = "in_progress"]
          /\ gameStates' = [gameStates EXCEPT ![m] = @ \cup {0}]
          /\ runs' = [runs EXCEPT ![k] = [NoRun EXCEPT !.m = m, !.pc = "playing"]]
          /\ execs' = [execs EXCEPT ![m] = @ + 1]
     ELSE UNCHANGED <<matches, gameStates, runs, execs>>
  /\ UNCHANGED <<ratingQ, tournamentTime, tournament_initialized,
                 shortGames, lost>>
  /\ UNCHANGED kickQ
  /\ UNCHANGED lastTerm
  /\ UNCHANGED skipped
  /\ UNCHANGED nonRunnerVars

\* the executor call raises: the except handler of run_match_task
run_match_task_raises(k) ==
  /\ runs[k].pc = "playing"
  /\ runs[k].moves = 0
  /\ LET m == runs[k].m IN
     matches' = [matches EXCEPT ![m] =
                   IF RowExists(m)
                   THEN [@ EXCEPT !.status = "error", !.term = "system_error"]
                   ELSE @]
  /\ runs' = [runs EXCEPT ![k] = NoRun]
  /\ UNCHANGED <<gameStates, taskQ, ratingQ, tournamentTime,
                 tournament_initialized, execs, shortGames, lost>>
  /\ UNCHANGED kickQ
  /\ UNCHANGED lastTerm
  /\ UNCHANGED skipped
  /\ UNCHANGED nonRunnerVars

\* run_hybrid_match, head of the ply loop: below max_moves the next mover is
\* asked for a move
run_hybrid_match_turn(k) ==
  /\ runs[k].pc = "playing"
  /\ runs[k].moves < MaxPlies
  /\ runs' = [runs EXCEPT ![k] = [@ EXCEPT !.moves = @ + 1, !.pc = "awaiting"]]
  /\ UNCHANGED <<matches, gameStates, taskQ, ratingQ, tournamentTime,
                 tournament_initialized, execs, shortGames, lost>>
  /\ UNCHANGED kickQ
  /\ UNCHANGED lastTerm
  /\ UNCHANGED skipped
  /\ UNCHANGED nonRunnerVars

\* run_hybrid_match, rest of the ply: a move that leaves the opponent a legal
\* move is recorded and the loop goes on
run_hybrid_match_reply(k) ==
  /\ runs[k].pc = "awaiting"
  /\ runs' = [runs EXCEPT ![k].pc = "playing"]
  /\ UNCHANGED <<matches, gameStates, taskQ, ratingQ, tournamentTime,
                 tournament_initialized, execs, shortGames, lost>>
  /\ UNCHANGED kickQ
  /\ UNCHANGED lastTerm
  /\ UNCHANGED skipped
  /\ UNCHANGED nonRunnerVars

\* how a game ends: the mover mates, times out, raises, disconnects, or
\* max_moves is reached
EndOutcomes == {"mate", "timeout", "error", "disconnected", "max_moves"}

\* the result dictionary with the termination of the branch of
\* run_hybrid_match that finds no legal move at the head of a ply
GameResult_no_moves(r, out) ==
  CASE out = "mate" -> [term |-> "no_moves", moves |-> r.moves]
    [] out = "timeout" -> [term |-> "timeout", moves |-> r.moves]
    [] out = "error" -> [term |-> "white_error", moves |-> r.moves]
    [] out = "max_moves" -> [term |-> "max_moves", moves |-> r.moves]
    [] OTHER -> [term |-> "cancelled", moves |-> 0]

\* the result dictionary run_hybrid_match returns
GameResult(r, out) ==
  CASE out = "mate" -> [term |-> "checkmate", moves |-> r.moves]
    [] out = "timeout" -> [term |-> "timeout", moves |-> r.moves]
    [] out = "error" -> [term |-> "white_error", moves |-> r.moves]
    [] out = "max_moves" -> [term |-> "max_moves", moves |-> r.moves]
    [] OTHER -> [term |-> "cancelled", moves |-> 0]

\* the game_states entries of a result: one per ply played, a ply that raised
\* has none
ResultStates(r) ==
  IF is_error(r.term) THEN 1..(r.moves - 1) ELSE 1..r.moves

\* the game ends and run_hybrid_match returns; run_match_task goes on with the
\* cancelled branch, the error-with-few-plies branch, the batch insert, the
\* short-game branch, the completion UPDATE and the rating task
run_match_task_finish(k, out) ==
  /\ IF out = "max_moves"
     THEN runs[k].pc = "playing" /\ runs[k].moves = MaxPlies
     ELSE runs[k].pc = "awaiting"
  /\ LET m == runs[k].m
         r == GameResult(runs[k], out)
     IN
     IF r.term = "cancelled" \/ (is_error(r.term) /\ r.moves < 4)
     THEN /\ DeleteMatch(m)
          /\ Kick(matches[m].match_type)
          /\ UNCHANGED <<ratingQ, shortGames>>
     ELSE IF is_short_game(r.moves)
     THEN /\ DeleteMatch(m)
          /\ shortGames' = shortGames \cup {m}
          /\ Kick(matches[m].match_type)
          /\ UNCHANGED ratingQ
     ELSE /\ gameStates' = [gameStates EXCEPT ![m] = @ \cup ResultStates(r)]
          /\ matches' = [matches EXCEPT ![m] =
                           IF RowExists(m)
                           THEN [@ EXCEPT !.status = "completed",
                                          !.moves = r.moves, !.term = r.term]
                           ELSE @]
          /\ ratingQ' = [ratingQ EXCEPT ![m] =
                           IF matches[m].match_type \in {"matchmaking", "tournament"}
                           THEN @ + 1 ELSE @]
          /\ Kick(matches[m].match_type)
          /\ UNCHANGED shortGames
  /\ lastTerm' = [lastTerm EXCEPT ![runs[k].m] = GameResult(runs[k], out).term]
  /\ runs' = [runs EXCEPT ![k] = NoRun]
  /\ UNCHANGED <<taskQ, tournamentTime, tournament_initialized, execs, lost>>
  /\ UNCHANGED skipped
  /\ UNCHANGED nonRunnerVars

\* the worker process is lost while the task runs: task_acks_late and
\* task_reject_on_worker_lost put the message back on the queue
worker_lost(k) ==
  /\ runs[k].pc # "idle"
  /\ lost < MaxLost
  /\ taskQ[runs[k].m] < MaxTasks
  /\ taskQ' = [taskQ EXCEPT ![runs[k].m] = @ + 1]
  /\ runs' = [runs EXCEPT ![k] = NoRun]
  /\ lost' = lost + 1
  /\ UNCHANGED <<matches, gameStates, ratingQ, tournamentTime,
                 tournament_initialized, execs, shortGames>>
  /\ UNCHANGED kickQ
  /\ UNCHANGED lastTerm
  /\ UNCHANGED skipped
  /\ UNCHANGED nonRunnerVars

\* a queued run_match_task message never reaches a worker: the broker loses
\* it, or run_match_task.delay raised after the INSERT was committed and the
\* except of schedule_round_robin swallowed the error
run_match_message_lost(m) ==
  /\ taskQ[m] > 0
  /\ lost < MaxLost
  /\ taskQ' = [taskQ EXCEPT ![m] = @ - 1]
  /\ lost' = lost + 1
  /\ UNCHANGED <<matches, gameStates, ratingQ, runs, tournamentTime,
                 tournament_initialized, execs, shortGames>>
  /\ UNCHANGED kickQ
  /\ UNCHANGED lastTerm
  /\ UNCHANGED skipped
  /\ UNCHANGED nonRunnerVars

\* task_time_limit: the task is killed after 300 s and is not redelivered
task_time_limit(k) ==
  /\ runs[k].pc # "idle"
  /\ runs' = [runs EXCEPT ![k] = NoRun]
  /\ UNCHANGED <<matches, gameStates, taskQ, ratingQ, tournamentTime,
                 tournament_initialized, execs, shortGames, lost>>
  /\ UNCHANGED kickQ
  /\ UNCHANGED lastTerm
  /\ UNCHANGED skipped
  /\ UNCHANGED nonRunnerVars

cleanup_stuck_matches_cancels ==
  /\ \E S \in SUBSET {m \in Matches : matches[m].status = "in_progress"
                                      /\ RunsOf(m) = {}} :
       /\ S # {}
       /\ matches' = [m \in Matches |->
                        IF m \in S
                        THEN [matches[m] EXCEPT !.status = "cancelled",
                                                !.term = "stuck_timeout"]
                        ELSE matches[m]]
       /\ IF \E m \in S : matches[m].match_type = "matchmaking"
          THEN Kick("matchmaking") ELSE UNCHANGED kickQ
  /\ UNCHANGED <<gameStates, taskQ, ratingQ, runs, tournamentTime,
                 tournament_initialized, execs, shortGames, lost>>
  /\ UNCHANGED lastTerm
  /\ UNCHANGED skipped
  /\ UNCHANGED nonRunnerVars

\* cleanup_stuck_matches: in_progress rows started more than 5 minutes ago
\* become error/stuck_timeout.  A task lives at most task_time_limit = 5
\* minutes, so such a row has no live run.
cleanup_stuck_matches ==
  /\ \E S \in SUBSET {m \in Matches : matches[m].status = "in_progress"
                                      /\ RunsOf(m) = {}} :
       /\ S # {}
       /\ matches' = [m \in Matches |->
                        IF m \in S
                        THEN [matches[m] EXCEPT !.status = "error",
                                                !.term = "stuck_timeout"]
                        ELSE matches[m]]
       /\ IF \E m \in S : matches[m].match_type = "matchmaking"
          THEN Kick("matchmaking") ELSE UNCHANGED kickQ
  /\ UNCHANGED <<gameStates, taskQ, ratingQ, runs, tournamentTime,
                 tournament_initialized, execs, shortGames, lost>>
  /\ UNCHANGED lastTerm
  /\ UNCHANGED skipped
  /\ UNCHANGED nonRunnerVars

\* the clock passes the tournament start
is_tournament_time ==
  /\ ~tournamentTime
  /\ tournamentTime' = TRUE
  /\ UNCHANGED <<matches, gameStates, taskQ, ratingQ, runs,
                 tournament_initialized, execs, shortGames, lost>>
  /\ UNCHANGED kickQ
  /\ UNCHANGED lastTerm
  /\ UNCHANGED skipped
  /\ UNCHANGED nonRunnerVars

\* initialize_tournament, reached from tournament_tick once the start time
\* has passed: cancels every pending or in_progress non-tournament match
initialize_tournament ==
  /\ tournamentTime
  /\ ~tournament_initialized
  /\ matches' = [m \in Matches |->
                   IF matches[m].status \in {"pending", "in_progress"}
                      /\ matches[m].match_type # "tournament"
                   THEN [matches[m] EXCEPT !.status = "cancelled"]
                   ELSE matches[m]]
  /\ tournament_initialized' = TRUE
  /\ UNCHANGED <<gameStates, taskQ, ratingQ, runs, tournamentTime,
                 execs, shortGames, lost>>
  /\ UNCHANGED kickQ
  /\ UNCHANGED lastTerm
  /\ UNCHANGED skipped
  /\ UNCHANGED nonRunnerVars

\* an exhibition match was inserted as pending by the web API; a matchmaking
\* match does not exist before schedule_round_robin inserts it
NewRow(t) ==
  [match_type |-> t,
   status |-> IF t = "exhibition" THEN "pending" ELSE "absent",
   moves |-> 0, term |-> "none"]

InitRunner ==
  /\ matches \in [Matches -> {NewRow(t) : t \in MatchTypes}]
  /\ gameStates = [m \in Matches |-> {}]
  /\ taskQ = [m \in Matches |-> 0]
  /\ ratingQ = [m \in Matches |-> 0]
  /\ runs = [k \in Runs |-> NoRun]
  /\ tournamentTime = FALSE
  /\ tournament_initialized = FALSE
  /\ execs = [m \in Matches |-> 0]
  /\ shortGames = {}
  /\ lost = 0
  /\ kickQ = 0
  /\ skipped = FALSE
  /\ lastTerm = [m \in Matches |-> "none"]

\* ------------------------------------------------------------- one ply
\* Times are in milliseconds.  env is the value of the environment variable
\* AGENT_TIMEOUT_SECONDS, 0 when it is not set; each module reads it with a
\* default of its own.
Elapsed == {1000 * t : t \in 0..MaxElapsed}

EnvValues == {0, 10000}

Players == {"white", "black"}

\* AGENT_TIMEOUT_SECONDS of hybrid_match_executor and of agent_executor
AGENT_TIMEOUT_SECONDS(env) == IF env = 0 THEN 14000 ELSE env

\* AGENT_TIMEOUT_SECONDS of hybrid_executor
bridge_AGENT_TIMEOUT_SECONDS(env) == IF env = 0 THEN 16000 ELSE env

MOVE_TIMEOUT(env) == bridge_AGENT_TIMEOUT_SECONDS(env) + 5000

TIMEOUT_CHECK_BUFFER == 1000

Opponent(player) == IF player = "white" THEN "black" ELSE "white"

\* what the mover returned: a legal move, no piece or no move (None), a piece
\* of the opponent, or a move that copy_piece_move does not find on the board
MoveKinds == {"valid", "null", "opponent", "illegal"}

NoPly == [path |-> "none", player |-> "none", env |-> 0, answer |-> "none",
          kind |-> "null", explicit |-> FALSE,
          elapsed |-> 0, timed_out |-> FALSE, notation |-> "none",
          move_time_ms |-> 0, winner |-> "none", termination |-> "none"]

Invalid(player) == IF player = "white" THEN "white_invalid" ELSE "black_invalid"

\* LocalAgentBridge.request_move: (move_data, elapsed, explicit_timeout) for
\* a reply of type resp received after e ms, the agent reporting ae ms of
\* computation (-1: none reported); "none" is no reply within MOVE_TIMEOUT
request_move_result(resp, e, ae) ==
  CASE resp = "move" ->
         [move |-> TRUE,
          elapsed |-> IF ae = -1 \/ ae < 1 THEN e ELSE ae,
          explicit |-> FALSE]
    [] resp = "timeout" -> [move |-> FALSE, elapsed |-> e, explicit |-> TRUE]
    [] resp = "error" -> [move |-> FALSE, elapsed |-> e, explicit |-> FALSE]
    [] OTHER -> [move |-> FALSE, elapsed |-> e, explicit |-> TRUE]

\* get_agent_move for a local agent: a reply with a move is never flagged as
\* an explicit timeout
get_agent_move_local(resp, e, ae) ==
  LET r == request_move_result(resp, e, ae) IN
    IF r.move THEN [r EXCEPT !.explicit = FALSE] ELSE r

\* execute_agent_with_timeout: (has a move, move_time_ms, timed_out); tm = -1
\* stands for the None returned when the agent exceeds the time limit
execute_agent_with_timeout(hasMove, tm) ==
  IF tm = -1
  THEN [move |-> FALSE, time_ms |-> -1, timed_out |-> TRUE]
  ELSE [move |-> hasMove, time_ms |-> tm, timed_out |-> FALSE]

\* get_agent_move for a server agent: elapsed = time_ms / 1000.0 if time_ms
\* else AGENT_TIMEOUT_SECONDS, so a time_ms of None or of 0 becomes the limit
get_agent_move_server(env, hasMove, tm) ==
  LET x == execute_agent_with_timeout(hasMove, tm) IN
    [move |-> x.move,
     elapsed |-> IF x.time_ms = -1 \/ x.time_ms = 0
                 THEN bridge_AGENT_TIMEOUT_SECONDS(env) ELSE x.time_ms,
     explicit |-> x.timed_out]

\* run_hybrid_match with the invalid answer looked at before the timeout
HybridPly_invalid_first(player, env, answer, kind, r) ==
  LET timed_out == r.explicit
                   \/ r.elapsed > AGENT_TIMEOUT_SECONDS(env) + TIMEOUT_CHECK_BUFFER
      invalid == kind # "valid"
      forfeit == timed_out \/ invalid
  IN
  [path |-> "hybrid", player |-> player, env |-> env, answer |-> answer,
   kind |-> kind, explicit |-> r.explicit,
   elapsed |-> r.elapsed, timed_out |-> timed_out,
   notation |-> IF invalid THEN "INVALID"
                ELSE IF timed_out THEN "TIMEOUT" ELSE "none",
   move_time_ms |-> r.elapsed,
   winner |-> IF forfeit THEN Opponent(player) ELSE "none",
   termination |-> IF invalid THEN Invalid(player)
                   ELSE IF timed_out THEN "timeout" ELSE "none"]

\* run_hybrid_match from the answer of get_agent_move to the execution of the
\* move: the timeout branch, then the three invalid branches (a piece of the
\* opponent, no piece or no move, a move that copy_piece_move rejects)
HybridPly(player, env, answer, kind, r) ==
  LET timed_out == r.explicit
                   \/ r.elapsed > AGENT_TIMEOUT_SECONDS(env) + TIMEOUT_CHECK_BUFFER
      invalid == ~timed_out
                 /\ (kind = "opponent" \/ kind = "null" \/ kind = "illegal")
      forfeit == timed_out \/ invalid
  IN
  [path |-> "hybrid", player |-> player, env |-> env, answer |-> answer,
   kind |-> kind, explicit |-> r.explicit,
   elapsed |-> r.elapsed, timed_out |-> timed_out,
   notation |-> IF timed_out THEN "TIMEOUT"
                ELSE IF invalid THEN "INVALID" ELSE "none",
   move_time_ms |-> r.elapsed,
   winner |-> IF forfeit THEN Opponent(player) ELSE "none",
   termination |-> IF timed_out THEN "timeout"
                   ELSE IF invalid THEN Invalid(player) ELSE "none"]

\* the ply in which get_agent_move raises AgentDisconnectedError: the result
\* is a cancelled game without winner and without a recorded ply
DisconnectedPly(player, env) ==
  [NoPly EXCEPT !.path = "hybrid", !.player = player, !.env = env,
                !.answer = "disconnected", !.termination = "cancelled"]

\* a ply of run_hybrid_match whose mover is a local agent; the game goes on
\* to a next ply only after a move that was executed
run_hybrid_match_local_ply(player, env, resp, kind, e, ae) ==
  /\ ply.termination = "none"
  /\ IF resp = "none" THEN e >= MOVE_TIMEOUT(env) ELSE e < MOVE_TIMEOUT(env)
  /\ resp # "move" => ae = -1 /\ kind = "null"
  /\ resp = "disconnected" => e = 0
  /\ ply' = IF resp = "disconnected" THEN DisconnectedPly(player, env)
            ELSE HybridPly(player, env, resp, kind,
                           get_agent_move_local(resp, e, ae))
  /\ UNCHANGED nonPlyVars

\* a ply of run_hybrid_match whose mover is a server agent, run in the
\* sandbox with the time limit of hybrid_executor
run_hybrid_match_server_ply(player, env, hasMove, kind, tm) ==
  /\ ply.termination = "none"
  /\ tm <= bridge_AGENT_TIMEOUT_SECONDS(env)
  /\ (hasMove /\ tm # -1) <=> kind # "null"
  /\ ply' = HybridPly(player, env, IF tm = -1 THEN "limit" ELSE "returned",
                      kind, get_agent_move_server(env, hasMove, tm))
  /\ UNCHANGED nonPlyVars

\* a ply of run_match_local from the answer of the agent to the execution of
\* the move
run_match_local_ply(player, env, hasMove, kind, tm) ==
  /\ ply.termination = "none"
  /\ tm <= AGENT_TIMEOUT_SECONDS(env)
  /\ (hasMove /\ tm # -1) <=> kind # "null"
  /\ LET x == execute_agent_with_timeout(hasMove, tm)
         invalid == ~x.timed_out
                    /\ (kind = "opponent" \/ kind = "null" \/ kind = "illegal")
     IN
     ply' = [path |-> "local", player |-> player, env |-> env,
             answer |-> IF tm = -1 THEN "limit" ELSE "returned",
             kind |-> kind, explicit |-> x.timed_out,
             elapsed |-> x.time_ms, timed_out |-> x.timed_out,
             notation |-> IF x.timed_out THEN "TIMEOUT"
                          ELSE IF invalid THEN "INVALID" ELSE "none",
             move_time_ms |-> IF x.timed_out THEN AGENT_TIMEOUT_SECONDS(env)
                              ELSE x.time_ms,
             winner |-> IF x.timed_out \/ invalid THEN Opponent(player)
                        ELSE "none",
             termination |-> IF x.timed_out THEN "timeout"
                             ELSE IF invalid THEN Invalid(player) ELSE "none"]
  /\ UNCHANGED nonPlyVars

InitPly == ply = NoPly

NextPly ==
  \/ \E player \in Players, env \in EnvValues,
        resp \in {"move", "timeout", "error", "none", "disconnected"},
        kind \in MoveKinds, e \in Elapsed, ae \in Elapsed \cup {-1} :
       run_hybrid_match_local_ply(player, env, resp, kind, e, ae)
  \/ \E player \in Players, env \in EnvValues, hasMove \in BOOLEAN,
        kind \in MoveKinds, tm \in Elapsed \cup {-1} :
       run_hybrid_match_server_ply(player, env, hasMove, kind, tm)
  \/ \E player \in Players, env \in EnvValues, hasMove \in BOOLEAN,
        kind \in MoveKinds, tm \in Elapsed \cup {-1} :
       run_match_local_ply(player, env, hasMove, kind, tm)

\* ---------------------------------------------------------- matchmaking
\* schedule_round_robin in full: one run reads the match limit, the count of
\* live matches and the agents, then inserts up to three matches.  Runs are
\* started by matchmaking_tick and by the messages queued after a match or a
\* sweep; several can be in progress on different workers.
MMAgents == {"s1", "l1"}

execution_mode == [a \in MMAgents |-> IF a = "s1" THEN "server" ELSE "local"]

\* COALESCE(r.elo_rating, 1500): both agents are new
elo_rating == [a \in MMAgents |-> 1500]

Pairs == {p \in SUBSET MMAgents : Cardinality(p) = 2}

Ticks == 1..MaxTicks

PER_AGENT_LIMIT == 4

MAX_ATTEMPTS == 3

ELO_RANGE == 200

ELO_RANGE_MULTIPLIERS == <<1, 2, 3>>

both_local(p) == \A a \in p : execution_mode[a] = "local"

RECURSIVE SumLive(_)
SumLive(P) ==
  IF P = {} THEN 0
  ELSE LET p == CHOOSE x \in P : TRUE IN live[p] + SumLive(P \ {p})

\* COUNT(*) of matchmaking matches pending or in_progress that are not
\* local against local
current_matches == SumLive({p \in Pairs : ~both_local(p)})

\* active_count of the agents query
active_matches(a) == SumLive({p \in Pairs : a \in p})

\* the rows of the agents query
all_agents ==
  {a \in eligible : \/ execution_mode[a] = "server"
                    \/ active_matches(a) < PER_AGENT_LIMIT}

NoTick == [pc |-> "idle", slots_available |-> 0, attempts |-> 0,
           all_agents |-> {}, active_matches |-> [a \in MMAgents |-> 0],
           scheduled_count |-> 0]

Min(x, y) == IF x <= y THEN x ELSE y

Abs(x) == IF x < 0 THEN 0 - x ELSE x

\* schedule_round_robin up to its loop
\* what get_match_limit returns when no executor is fresh or Redis fails
FALLBACK_MAX_MATCHES == 8

\* get_registry().get_match_limit() as the scheduler sees it: the sum over
\* the fresh executors, FALLBACK_MAX_MATCHES on a redis.RedisError
MAX_MATCHES == IF busUp THEN limit ELSE FALLBACK_MAX_MATCHES

\* the run up to the pairing loop.  The print after the count calls
\* get_registry().get_active_executors() outside get_match_limit's try: with
\* Redis down it raises, and the except of schedule_round_robin ends the run.
schedule_round_robin_begin(t) ==
  /\ tick[t].pc = "idle"
  /\ latestLimit' = MAX_MATCHES
  /\ LET slots == MAX_MATCHES - current_matches IN
     tick' = [tick EXCEPT ![t] =
                IF ~busUp \/ Cardinality(all_agents) < 2 \/ slots <= 0
                THEN NoTick
                ELSE [pc |-> "loop", slots_available |-> slots,
                      attempts |-> Min(MAX_ATTEMPTS, slots),
                      all_agents |-> all_agents,
                      active_matches |->
                        [a \in MMAgents |->
                           IF a \in all_agents THEN active_matches(a) ELSE 0],
                      scheduled_count |-> 0]]
  /\ UNCHANGED <<live, limit, eligible, busUp>>
  /\ UNCHANGED nonMmVars

\* all_agents.sort(key=(active_matches, random)): the orders it can produce
SortedAgents(ag, act) ==
  {s \in [1..Cardinality(ag) -> ag] :
     /\ \A i, j \in DOMAIN s : i # j => s[i] # s[j]
     /\ \A i, j \in DOMAIN s : i < j => act[s[i]] <= act[s[j]]}

\* the index pairs i < j of the order whose rating difference is in the range
InRange(s, elo, range) ==
  {ij \in (DOMAIN s) \X (DOMAIN s) :
     ij[1] < ij[2] /\ Abs(elo[s[ij[1]]] - elo[s[ij[2]]]) <= range}

\* the first pair the two nested loops meet within the range
FirstInRange(s, elo, range) ==
  CHOOSE ij \in InRange(s, elo, range) :
    \A kl \in InRange(s, elo, range) :
      ij[1] < kl[1] \/ (ij[1] = kl[1] /\ ij[2] <= kl[2])

\* the pair of one pairing attempt: the first within the narrowest range
\* that holds one, else the first two agents of the order
pair_indices(s, elo) ==
  LET Hit == {n \in DOMAIN ELO_RANGE_MULTIPLIERS :
                InRange(s, elo, ELO_RANGE * ELO_RANGE_MULTIPLIERS[n]) # {}}
  IN IF Hit = {} THEN <<1, 2>>
     ELSE LET n == CHOOSE x \in Hit : \A y \in Hit : x <= y
          IN FirstInRange(s, elo, ELO_RANGE * ELO_RANGE_MULTIPLIERS[n])

matched_pair(s, elo) ==
  LET ij == pair_indices(s, elo) IN {s[ij[1]], s[ij[2]]}

\* one iteration of the loop: pair, insert, count
schedule_round_robin_attempt(t) ==
  /\ tick[t].pc = "loop"
  /\ \E s \in SortedAgents(tick[t].all_agents, tick[t].active_matches) :
       LET p == matched_pair(s, elo_rating)
           slots == IF both_local(p) THEN tick[t].slots_available
                    ELSE tick[t].slots_available - 1
           left == tick[t].attempts - 1
       IN
       /\ live' = [live EXCEPT ![p] = @ + 1]
       /\ tick' = [tick EXCEPT ![t] =
                     IF left = 0 \/ slots <= 0
                     THEN NoTick
                     ELSE [@ EXCEPT !.slots_available = slots,
                                    !.attempts = left,
                                    !.active_matches =
                                       [a \in MMAgents |->
                                          IF a \in p THEN @[a] + 1 ELSE @[a]],
                                    !.scheduled_count = @ + 1]]
  /\ UNCHANGED <<limit, eligible, latestLimit, busUp>>
  /\ UNCHANGED nonMmVars

\* a match of the pair leaves pending / in_progress: completed, deleted,
\* error or cancelled
match_ends(p) ==
  /\ live[p] > 0
  /\ live' = [live EXCEPT ![p] = @ - 1]
  /\ UNCHANGED <<limit, eligible, tick, latestLimit, busUp>>
  /\ UNCHANGED nonMmVars

\* executors register, deregister or go stale
executors_change(c) ==
  /\ c # limit
  /\ limit' = c
  /\ UNCHANGED <<live, eligible, tick, latestLimit, busUp>>
  /\ UNCHANGED nonMmVars

\* Redis becomes unreachable or reachable again
bus_changes ==
  /\ busUp' = ~busUp
  /\ UNCHANGED <<live, limit, eligible, tick, latestLimit>>
  /\ UNCHANGED nonMmVars

\* an agent is activated or deactivated, a local agent connects or is lost
agent_changes(a) ==
  /\ eligible' = IF a \in eligible THEN eligible \ {a} ELSE eligible \cup {a}
  /\ UNCHANGED <<live, limit, tick, latestLimit, busUp>>
  /\ UNCHANGED nonMmVars

InitMatchmaking ==
  /\ live = [p \in Pairs |-> 0]
  /\ limit = MaxCapacity
  /\ eligible = MMAgents
  /\ tick = [t \in Ticks |-> NoTick]
  /\ latestLimit = MaxCapacity
  /\ busUp = TRUE

NextMatchmaking ==
  \/ \E t \in Ticks : schedule_round_robin_begin(t)
  \/ \E t \in Ticks : schedule_round_robin_attempt(t)
  \/ \E p \in Pairs : match_ends(p)
  \/ \E c \in 1..MaxCapacity : executors_change(c)
  \/ \E a \in MMAgents : agent_changes(a)
  \/ bus_changes

\* ------------------------------------------------------- pair selection
\* One pairing iteration of schedule_round_robin over agents of different
\* ratings: the rows of the agents query, the sort by active matches with a
\* random tie-break, the search through the ranges and the fallback.
PoolAgents == 1..MaxPool

\* rankings.elo_rating values the query can return
Ratings == {1000, 1150, 1300, 1700, 2400}

NoPool == [pc |-> "none", elo_rating |-> [a \in PoolAgents |-> 0],
           active_matches |-> [a \in PoolAgents |-> 0]]

NoMatched == [order |-> <<>>, pair |-> <<0, 0>>]

\* cur.fetchall() of the agents query: every agent has a rating and a count
\* of active matches
agents_query(elo, act) ==
  /\ pool.pc = "none"
  /\ pool' = [pc |-> "fetched", elo_rating |-> elo, active_matches |-> act]
  /\ UNCHANGED matched
  /\ UNCHANGED nonPairVars

\* one iteration of `for attempt in range(max_attempts)` up to matched_pair
pairing_iteration(s) ==
  /\ pool.pc = "fetched"
  /\ s \in SortedAgents(PoolAgents, pool.active_matches)
  /\ matched' = [order |-> s, pair |-> pair_indices(s, pool.elo_rating)]
  /\ pool' = [pool EXCEPT !.pc = "paired"]
  /\ UNCHANGED nonPairVars

\* the run returns
pairing_returns ==
  /\ pool.pc = "paired"
  /\ pool' = NoPool
  /\ matched' = NoMatched
  /\ UNCHANGED nonPairVars

InitPairing ==
  /\ pool = NoPool
  /\ matched = NoMatched

NextPairing ==
  \/ \E elo \in [PoolAgents -> Ratings], act \in [PoolAgents -> 0..1] :
       agents_query(elo, act)
  \/ \E s \in [PoolAgents -> PoolAgents] : pairing_iteration(s)
  \/ pairing_returns

\* ------------------------------------------------------ executor registry
\* Times are in units of 5 s.  A record is written with a time to live of
\* STALE_THRESHOLD + 10 s, counted from its last_heartbeat: register_executor
\* and send_heartbeat set both together.
Workers == {"w1", "w2"}

STALE_THRESHOLD == 6

\* MATCHES_PER_EXECUTOR of the process that queries the registry
MATCHES_PER_EXECUTOR == 4

KeyTtl == STALE_THRESHOLD + 2

NoRecord == [last_heartbeat |-> -1, matches_per_executor |-> -1]

\* HGETALL returns a non-empty hash: the key was written and has not expired
RecordExists(w) ==
  regRecord[w] # NoRecord /\ now < regRecord[w].last_heartbeat + KeyTtl

\* int(info.get('matches_per_executor', MATCHES_PER_EXECUTOR))
matches_per_executor(w) ==
  IF regRecord[w].matches_per_executor = -1
  THEN MATCHES_PER_EXECUTOR ELSE regRecord[w].matches_per_executor

\* register_executor, called when the worker starts
register_executor(w, k) ==
  /\ worker[w].st = "down"
  /\ worker' = [worker EXCEPT ![w].st = "up"]
  /\ regRecord' = [regRecord EXCEPT ![w] =
                     [last_heartbeat |-> now, matches_per_executor |-> k]]
  /\ regActive' = regActive \cup {w}
  /\ UNCHANGED <<now, regResult>>
  /\ UNCHANGED nonRegVars

\* _heartbeat_loop: the thread of a running worker calls send_heartbeat
heartbeat_loop(w) ==
  /\ worker[w].st = "up"
  /\ worker[w].hb = "idle"
  /\ worker' = [worker EXCEPT ![w].hb = "sending"]
  /\ UNCHANGED <<regActive, regRecord, now, regResult>>
  /\ UNCHANGED nonRegVars

\* send_heartbeat: HSET last_heartbeat on the key, whether or not it exists,
\* EXPIRE, SADD
send_heartbeat(w) ==
  /\ worker[w].hb = "sending"
  /\ worker' = [worker EXCEPT ![w].hb = "idle"]
  /\ regRecord' = [regRecord EXCEPT ![w] =
                     IF RecordExists(w)
                     THEN [@ EXCEPT !.last_heartbeat = now]
                     ELSE [NoRecord EXCEPT !.last_heartbeat = now]]
  /\ regActive' = regActive \cup {w}
  /\ UNCHANGED <<now, regResult>>
  /\ UNCHANGED nonRegVars

\* worker_shutdown: the heartbeat thread is told to stop and joined for at
\* most 5 s, then deregister_executor deletes the key and the membership
deregister_executor(w) ==
  /\ worker[w].st = "up"
  /\ worker' = [worker EXCEPT ![w].st = "down"]
  /\ regRecord' = [regRecord EXCEPT ![w] = NoRecord]
  /\ regActive' = regActive \ {w}
  /\ UNCHANGED <<now, regResult>>
  /\ UNCHANGED nonRegVars

\* the worker process is killed: no deregistration, no more heartbeats
worker_killed(w) ==
  /\ worker[w].st = "up"
  /\ worker' = [worker EXCEPT ![w] = [st |-> "down", hb |-> "idle"]]
  /\ UNCHANGED <<regActive, regRecord, now, regResult>>
  /\ UNCHANGED nonRegVars

clock_advances ==
  /\ now < MaxNow
  /\ now' = now + 1
  /\ UNCHANGED <<regActive, regRecord, worker, regResult>>
  /\ UNCHANGED nonRegVars

\* the loop of get_active_executors with the age of a heartbeat ignored
RECURSIVE ScanExecutors_any_age(_, _, _)
ScanExecutors_any_age(ids, active_executors, stale_ids) ==
  IF ids = {}
  THEN [active_executors |-> active_executors, stale_ids |-> stale_ids]
  ELSE LET w == CHOOSE x \in ids : TRUE IN
       IF ~RecordExists(w)
       THEN ScanExecutors_any_age(ids \ {w}, active_executors,
                                  stale_ids \cup {w})
       ELSE ScanExecutors_any_age(ids \ {w}, active_executors \cup {w},
                                  stale_ids)

\* the loop of get_active_executors over the members of the active set
RECURSIVE ScanExecutors(_, _, _)
ScanExecutors(ids, active_executors, stale_ids) ==
  IF ids = {}
  THEN [active_executors |-> active_executors, stale_ids |-> stale_ids]
  ELSE LET w == CHOOSE x \in ids : TRUE IN
       IF ~RecordExists(w)
       THEN ScanExecutors(ids \ {w}, active_executors, stale_ids \cup {w})
       ELSE IF now - regRecord[w].last_heartbeat > STALE_THRESHOLD
       THEN ScanExecutors(ids \ {w}, active_executors, stale_ids \cup {w})
       ELSE ScanExecutors(ids \ {w}, active_executors \cup {w}, stale_ids)

\* the clean-up of get_active_executors with the DEL left out
CleanUp_set_only(stale_ids) ==
  /\ regActive' = regActive \ stale_ids
  /\ regRecord' = regRecord

\* the clean-up of get_active_executors: SREM and DEL for every stale id
CleanUp(stale_ids) ==
  /\ regActive' = regActive \ stale_ids
  /\ regRecord' = [w \in Workers |->
                     IF w \in stale_ids THEN NoRecord ELSE regRecord[w]]

RECURSIVE SumCapacity(_)
SumCapacity(S) ==
  IF S = {} THEN 0
  ELSE LET w == CHOOSE x \in S : TRUE IN
       matches_per_executor(w) + SumCapacity(S \ {w})

get_active_executors ==
  /\ LET scan == ScanExecutors(regActive, {}, {}) IN
     /\ CleanUp(scan.stale_ids)
     /\ regResult' = [executors |-> scan.active_executors, limit |-> -1,
                      stale_ids |-> scan.stale_ids]
  /\ UNCHANGED <<now, worker>>
  /\ UNCHANGED nonRegVars

get_match_limit ==
  /\ LET scan == ScanExecutors(regActive, {}, {}) IN
     /\ CleanUp(scan.stale_ids)
     /\ regResult' = [executors |-> scan.active_executors,
                      limit |-> IF scan.active_executors = {}
                                THEN FALLBACK_MAX_MATCHES
                                ELSE SumCapacity(scan.active_executors),
                      stale_ids |-> scan.stale_ids]
  /\ UNCHANGED <<now, worker>>
  /\ UNCHANGED nonRegVars

InitRegistry ==
  /\ regActive = {}
  /\ regRecord = [w \in Workers |-> NoRecord]
  /\ now = 0
  /\ worker = [w \in Workers |-> [st |-> "down", hb |-> "idle"]]
  /\ regResult = [executors |-> {}, limit |-> -1, stale_ids |-> {}]

NextRegistry ==
  \/ \E w \in Workers, k \in 1..MaxMpe : register_executor(w, k)
  \/ \E w \in Workers : heartbeat_loop(w)
  \/ \E w \in Workers : send_heartbeat(w)
  \/ \E w \in Workers : deregister_executor(w)
  \/ \E w \in Workers : worker_killed(w)
  \/ clock_advances
  \/ get_active_executors
  \/ get_match_limit

\* ------------------------------------------------------ bracket snapshot
\* The eligible agents (active, server, games_played > 0) are 1..total.  Agent
\* a has rating 1500 + 10 a, but agents 2 and 3 have the same rating, and agent
\* 1 rises above every other agent when its rating changes.
Procs == {"p1", "p2"}

elo(a) ==
  IF a = 1 /\ risen THEN 1500 + 10 * (MaxAgents + 1)
  ELSE IF a = 3 THEN 1500 + 10 * 2
  ELSE 1500 + 10 * a

\* ORDER BY elo_rating ASC: rows of equal rating come in either order
OrderKey(a, flip) == 100 * elo(a) + (IF flip THEN MaxAgents + 1 - a ELSE a)

RECURSIVE OrderByRating(_, _)
OrderByRating(S, flip) ==
  IF S = {} THEN <<>>
  ELSE LET a == CHOOSE x \in S :
                  \A y \in S : OrderKey(x, flip) <= OrderKey(y, flip)
       IN <<a>> \o OrderByRating(S \ {a}, flip)

\* Python's round(n * quarters * 0.25): halves go to the even neighbour
Round(n, quarters) ==
  LET q == (n * quarters) \div 4
      r == (n * quarters) % 4
  IN IF r < 2 THEN q
     ELSE IF r > 2 THEN q + 1
     ELSE IF q % 2 = 0 THEN q ELSE q + 1

Max(a, b) == IF a >= b THEN a ELSE b

Slice(s, from, to) == [i \in 1..(to - from) |-> s[from + i]]

NoBrackets == [challenger |-> <<>>, contender |-> <<>>, elite |-> <<>>]

\* the split with the contender slice started one row late
Brackets_gap(all_agents_) ==
  LET n == Len(all_agents_)
      bottom_25_end == Max(1, Round(n, 1))
      top_25_start == Max(bottom_25_end, Round(n, 3))
  IN IF n = 0 THEN NoBrackets
     ELSE IF n < 8 THEN [NoBrackets EXCEPT !.contender = all_agents_]
     ELSE [challenger |-> Slice(all_agents_, 0, bottom_25_end),
           contender |-> Slice(all_agents_, bottom_25_end + 1, top_25_start),
           elite |-> Slice(all_agents_, top_25_start, n)]

\* the split of initialize_tournament
Brackets(all_agents_) ==
  LET n == Len(all_agents_)
      bottom_25_end == Max(1, Round(n, 1))
      top_25_start == Max(bottom_25_end, Round(n, 3))
  IN IF n = 0 THEN NoBrackets
     ELSE IF n < 8 THEN [NoBrackets EXCEPT !.contender = all_agents_]
     ELSE [challenger |-> Slice(all_agents_, 0, bottom_25_end),
           contender |-> Slice(all_agents_, bottom_25_end, top_25_start),
           elite |-> Slice(all_agents_, top_25_start, n)]

NoCache == [set |-> FALSE, brackets |-> NoBrackets]

\* initialize_tournament in a process that has not run it, from the commit of
\* its two UPDATEs on: the snapshot is computed from the current ratings and
\* written with SETEX, and the process's flag is set
snapshot_brackets(p, flip) ==
  /\ ~initialized[p]
  /\ bracketCache' = [set |-> TRUE,
                      brackets |-> Brackets(OrderByRating(1..total, flip))]
  /\ initialized' = [initialized EXCEPT ![p] = TRUE]
  /\ UNCHANGED <<total, risen>>
  /\ UNCHANGED nonBrVars

\* before the tournament, one more agent finishes its first game
agent_becomes_eligible ==
  /\ total < MaxAgents
  /\ ~bracketCache.set
  /\ \A p \in Procs : ~initialized[p]
  /\ total' = total + 1
  /\ UNCHANGED <<risen, bracketCache, initialized>>
  /\ UNCHANGED nonBrVars

\* update_ratings after a game: agent 1 overtakes the others, or falls back
rating_changes ==
  /\ total > 0
  /\ risen' = ~risen
  /\ UNCHANGED <<total, bracketCache, initialized>>
  /\ UNCHANGED nonBrVars

\* a worker process is restarted: its module global starts as False
process_restarts(p) ==
  /\ initialized[p]
  /\ initialized' = [initialized EXCEPT ![p] = FALSE]
  /\ UNCHANGED <<total, risen, bracketCache>>
  /\ UNCHANGED nonBrVars

\* BRACKET_CACHE_TTL has passed since the SETEX
cache_expires ==
  /\ bracketCache.set
  /\ bracketCache' = NoCache
  /\ UNCHANGED <<total, risen, initialized>>
  /\ UNCHANGED nonBrVars

InitBrackets ==
  /\ total = 0
  /\ risen = FALSE
  /\ bracketCache = NoCache
  /\ initialized = [p \in Procs |-> FALSE]

NextBrackets ==
  \/ \E p \in Procs, flip \in BOOLEAN : snapshot_brackets(p, flip)
  \/ agent_becomes_eligible
  \/ rating_changes
  \/ \E p \in Procs : process_restarts(p)
  \/ cache_expires

\* ------------------------------------------------------ Swiss scheduling
\* One bracket with the agents of its snapshot.  A pair of agents has at most
\* one tournament row (the count before the INSERT sees rows of every status);
\* the row is pending or in_progress ("active") or completed with the first
\* agent of the pair, the second, or nobody as winner.  Which of the two is
\* white is random in the code and has no effect on what is modelled.
\* challenger takes the same branch of max_concurrent as elite
BracketIds == {"contender", "elite"}

BracketAgents == 1..BracketSize

SwPairs == {p \in BracketAgents \X BracketAgents : p[1] < p[2]}

Scheds == 1..MaxScheds

\* results of a completed match that the model draws from: a win of the
\* pair's first agent or a draw (a win of the second is the same with the
\* agents exchanged)
Outcomes == {"first", "draw"}

\* every order of every set of agents
AgentOrders ==
  UNION {{o \in [1..n -> BracketAgents] :
            \A i, j \in 1..n : i # j => o[i] # o[j]} : n \in 0..BracketSize}

PairOf(a, b) == IF a < b THEN <<a, b>> ELSE <<b, a>>

\* compute_swiss_standings: opponents and points (doubled: a win 2, a draw 1)
opponents(a) ==
  {b \in BracketAgents \ {a} : pairRow[PairOf(a, b)] \in Outcomes}

PairPoints(a, p) ==
  IF pairRow[p] = "draw" THEN 1
  ELSE IF (pairRow[p] = "first" /\ p[1] = a) \/ (pairRow[p] = "second" /\ p[2] = a)
  THEN 2 ELSE 0

RECURSIVE SumPoints(_, _)
SumPoints(a, S) ==
  IF S = {} THEN 0
  ELSE LET b == CHOOSE x \in S : TRUE
       IN PairPoints(a, PairOf(a, b)) + SumPoints(a, S \ {b})

points(a) == SumPoints(a, opponents(a))

has_played_before(a, b) == b \in opponents(a)

RECURSIVE CeilLog2(_)
CeilLog2(n) == IF n <= 1 THEN 0 ELSE 1 + CeilLog2((n + 1) \div 2)

calculate_total_rounds(n) ==
  IF n < 2 THEN 0 ELSE Min(Max(3, CeilLog2(n)), n - 1)

\* count_active_tournament_matches
active_count == Cardinality({p \in SwPairs : pairRow[p] = "active"})

max_concurrent == IF bracket_id = "contender" THEN 3 ELSE 2

\* the agents swiss_pairing keeps: those with an opponent left to play
eligible_agents ==
  {a \in BracketAgents : Cardinality(opponents(a)) < BracketSize - 1}

\* ordered_agents: score groups by points descending, shuffled within a group
OrderedAgents ==
  {o \in AgentOrders :
     /\ {o[i] : i \in DOMAIN o} = eligible_agents
     /\ \A i, j \in DOMAIN o : i < j => points(o[i]) >= points(o[j])}

\* the greedy loop of swiss_pairing without the test has_played_before
RECURSIVE GreedyPairing_rematch(_, _, _, _)
GreedyPairing_rematch(o, i, paired, pairings) ==
  IF i > Len(o) THEN pairings
  ELSE LET agent1 == o[i]
           cand == {j \in DOMAIN o : o[j] # agent1 /\ o[j] \notin paired}
           diff(j) == Abs(points(agent1) - points(o[j]))
       IN IF agent1 \in paired \/ cand = {}
          THEN GreedyPairing_rematch(o, i + 1, paired, pairings)
          ELSE LET best == CHOOSE j \in cand : \A k \in cand :
                             diff(j) < diff(k) \/ (diff(j) = diff(k) /\ j <= k)
               IN GreedyPairing_rematch(o, i + 1,
                                paired \cup {agent1, o[best]},
                                Append(pairings, PairOf(agent1, o[best])))

\* the greedy loop of swiss_pairing: for each unpaired agent in order, the
\* first unpaired agent it has not played with the smallest points difference
RECURSIVE GreedyPairing(_, _, _, _)
GreedyPairing(o, i, paired, pairings) ==
  IF i > Len(o) THEN pairings
  ELSE LET agent1 == o[i]
           cand == {j \in DOMAIN o : /\ o[j] # agent1
                                     /\ o[j] \notin paired
                                     /\ ~has_played_before(agent1, o[j])}
           diff(j) == Abs(points(agent1) - points(o[j]))
       IN IF agent1 \in paired \/ cand = {}
          THEN GreedyPairing(o, i + 1, paired, pairings)
          ELSE LET best == CHOOSE j \in cand : \A k \in cand :
                             diff(j) < diff(k) \/ (diff(j) = diff(k) /\ j <= k)
               IN GreedyPairing(o, i + 1,
                                paired \cup {agent1, o[best]},
                                Append(pairings, PairOf(agent1, o[best])))

swiss_pairing(o) ==
  IF Cardinality(eligible_agents) < 2 THEN <<>>
  ELSE GreedyPairing(o, 1, {}, <<>>)

NoSched == [pc |-> "idle", pairings |-> <<>>, created |-> 0]

\* schedule_all_brackets finds the agents in the bracket b of the snapshot;
\* from then on its runs for that bracket are sent
schedule_all_brackets(b) ==
  /\ bracket_id = "none"
  /\ bracket_id' = b
  /\ UNCHANGED <<pairRow, sched>>
  /\ UNCHANGED nonSwVars

\* schedule_tournament_bracket up to the loop that creates the matches
schedule_tournament_bracket_begin(t, o) ==
  /\ bracket_id # "none"
  /\ sched[t].pc = "idle"
  /\ o \in OrderedAgents
  /\ LET min_matches ==
           CHOOSE n \in 0..BracketSize :
             /\ \E a \in BracketAgents : Cardinality(opponents(a)) = n
             /\ \A a \in BracketAgents : Cardinality(opponents(a)) >= n
         pairings == swiss_pairing(o)
     IN sched' = [sched EXCEPT ![t] =
                    IF \/ min_matches >= calculate_total_rounds(BracketSize)
                       \/ active_count >= max_concurrent
                       \/ active_count > 0
                       \/ pairings = <<>>
                    THEN NoSched
                    ELSE [pc |-> "create", pairings |-> pairings,
                          created |-> 0]]
  /\ UNCHANGED <<bracket_id, pairRow>>
  /\ UNCHANGED nonSwVars

\* one turn of the loop: slots_available is max_concurrent, as active_count
\* was 0; the pair is counted among the rows, inserted if it has none
schedule_tournament_bracket_create(t) ==
  /\ sched[t].pc = "create"
  /\ IF sched[t].pairings = <<>> \/ sched[t].created >= max_concurrent
     THEN /\ sched' = [sched EXCEPT ![t] = NoSched]
          /\ UNCHANGED pairRow
     ELSE LET p == Head(sched[t].pairings) IN
          IF pairRow[p] # "none"
          THEN /\ sched' = [sched EXCEPT ![t].pairings = Tail(@)]
               /\ UNCHANGED pairRow
          ELSE /\ pairRow' = [pairRow EXCEPT ![p] = "active"]
               /\ sched' = [sched EXCEPT ![t].pairings = Tail(@),
                                         ![t].created = @ + 1]
  /\ UNCHANGED bracket_id
  /\ UNCHANGED nonSwVars

\* run_match_task completes the match of a pair
tournament_match_completes(p, out) ==
  /\ pairRow[p] = "active"
  /\ pairRow' = [pairRow EXCEPT ![p] = out]
  /\ UNCHANGED <<bracket_id, sched>>
  /\ UNCHANGED nonSwVars

\* run_match_task's except handler, or cleanup_stuck_matches on a row left
\* in_progress: the row stays with status error
tournament_match_errors(p) ==
  /\ pairRow[p] = "active"
  /\ pairRow' = [pairRow EXCEPT ![p] = "error"]
  /\ UNCHANGED <<bracket_id, sched>>
  /\ UNCHANGED nonSwVars

\* run_match_task deletes the row: the game was too short, was cancelled or
\* raised within its first plies
tournament_match_deleted(p) ==
  /\ pairRow[p] = "active"
  /\ pairRow' = [pairRow EXCEPT ![p] = "none"]
  /\ UNCHANGED <<bracket_id, sched>>
  /\ UNCHANGED nonSwVars

InitSwiss ==
  /\ bracket_id = "none"
  /\ pairRow = [p \in SwPairs |-> "none"]
  /\ sched = [t \in Scheds |-> NoSched]

NextSwiss ==
  \/ \E b \in BracketIds : schedule_all_brackets(b)
  \/ \E t \in Scheds, o \in AgentOrders :
       schedule_tournament_bracket_begin(t, o)
  \/ \E t \in Scheds : schedule_tournament_bracket_create(t)
  \/ \E p \in SwPairs, out \in Outcomes : tournament_match_completes(p, out)

\* ------------------------------------------------------ agent validation
\* Queue entries are numbered in the order of created_at.
Entries == 1..MaxEntries

Testers == 1..MaxTesters

NoTester == [pc |-> "idle", queue_id |-> 0]

NoService == [pc |-> "sleep", pending_requests |-> <<>>]

\* the entries a SELECT ... WHERE status = 'pending' ORDER BY created_at finds
RECURSIVE PendingFrom(_)
PendingFrom(q) ==
  IF q > MaxEntries THEN <<>>
  ELSE IF vqStatus[q] = "pending" THEN <<q>> \o PendingFrom(q + 1)
  ELSE PendingFrom(q + 1)

\* the web application queues an agent for validation
entry_submitted(q) ==
  /\ vqStatus[q] = "none"
  /\ \A r \in Entries : r < q => vqStatus[r] # "none"
  /\ vqStatus' = [vqStatus EXCEPT ![q] = "pending"]
  /\ UNCHANGED <<created, testQ, tester, service>>
  /\ UNCHANGED nonValVars

\* process_validation_queue, every 10 s: one test_agent_move message for each
\* entry that is pending
process_validation_queue ==
  /\ \E q \in Entries : vqStatus[q] = "pending" /\ testQ[q] < MaxTestQ
  /\ testQ' = [q \in Entries |->
                 IF vqStatus[q] = "pending" /\ testQ[q] < MaxTestQ
                 THEN testQ[q] + 1 ELSE testQ[q]]
  /\ UNCHANGED <<vqStatus, created, tester, service>>
  /\ UNCHANGED nonValVars

\* test_agent_move up to its SELECT: a run that finds the entry not pending
\* returns
test_agent_move_select(t, q) ==
  /\ tester[t].pc = "idle"
  /\ testQ[q] > 0
  /\ testQ' = [testQ EXCEPT ![q] = @ - 1]
  /\ tester' = [tester EXCEPT ![t] =
                  IF vqStatus[q] = "pending"
                  THEN [pc |-> "selected", queue_id |-> q]
                  ELSE NoTester]
  /\ UNCHANGED <<vqStatus, created, service>>
  /\ UNCHANGED nonValVars

\* UPDATE ... SET status = 'testing' WHERE id = queue_id, and the commit
test_agent_move_testing(t) ==
  /\ tester[t].pc = "selected"
  /\ vqStatus' = [vqStatus EXCEPT ![tester[t].queue_id] = "testing"]
  /\ tester' = [tester EXCEPT ![t].pc = "testing"]
  /\ UNCHANGED <<created, testQ, service>>
  /\ UNCHANGED nonValVars

\* the test and what follows it: on success the Agent and Ranking rows and
\* status passed in one transaction, on failure or exception status failed
test_agent_move_result(t, success) ==
  /\ tester[t].pc = "testing"
  /\ LET q == tester[t].queue_id IN
     IF success
     THEN /\ created[q] < MaxCreated
          /\ created' = [created EXCEPT ![q] = @ + 1]
          /\ vqStatus' = [vqStatus EXCEPT ![q] = "passed"]
     ELSE /\ vqStatus' = [vqStatus EXCEPT ![q] = "failed"]
          /\ UNCHANGED created
  /\ tester' = [tester EXCEPT ![t] = NoTester]
  /\ UNCHANGED <<testQ, service>>
  /\ UNCHANGED nonValVars

\* main of the validator service: the poll for pending requests
main_poll ==
  /\ service.pc = "sleep"
  /\ PendingFrom(1) # <<>>
  /\ service' = [pc |-> "testing", pending_requests |-> PendingFrom(1)]
  /\ UNCHANGED <<vqStatus, created, testQ, tester>>
  /\ UNCHANGED nonValVars

\* main's loop over the requests it polled: UPDATE ... SET status = 'testing'
\* for the next one, and the commit
main_testing ==
  /\ service.pc = "testing"
  /\ vqStatus' = [vqStatus EXCEPT ![Head(service.pending_requests)] = "testing"]
  /\ service' = [service EXCEPT !.pc = "process"]
  /\ UNCHANGED <<created, testQ, tester>>
  /\ UNCHANGED nonValVars

\* process_validation_request for that request
process_validation_request(success) ==
  /\ service.pc = "process"
  /\ LET q == Head(service.pending_requests)
         rest == Tail(service.pending_requests)
     IN /\ IF success
           THEN /\ created[q] < MaxCreated
                /\ created' = [created EXCEPT ![q] = @ + 1]
                /\ vqStatus' = [vqStatus EXCEPT ![q] = "passed"]
           ELSE /\ vqStatus' = [vqStatus EXCEPT ![q] = "failed"]
                /\ UNCHANGED created
        /\ service' = IF rest = <<>> THEN NoService
                      ELSE [pc |-> "testing", pending_requests |-> rest]
  /\ UNCHANGED <<testQ, tester>>
  /\ UNCHANGED nonValVars

InitValidation ==
  /\ vqStatus = [q \in Entries |-> "none"]
  /\ created = [q \in Entries |-> 0]
  /\ testQ = [q \in Entries |-> 0]
  /\ tester = [t \in Testers |-> NoTester]
  /\ service = NoService

NextValidation ==
  \/ \E q \in Entries : entry_submitted(q)
  \/ process_validation_queue
  \/ \E t \in Testers, q \in Entries : test_agent_move_select(t, q)
  \/ \E t \in Testers : test_agent_move_testing(t)
  \/ \E t \in Testers, success \in BOOLEAN : test_agent_move_result(t, success)
  \/ main_poll
  \/ main_testing
  \/ \E success \in BOOLEAN : process_validation_request(success)

\* ------------------------------------------------------ session heartbeats
\* Times are in units of AGENT_TIMEOUT_SECONDS.  age is the time since
\* last_heartbeat[agent_id] was set, quiet the time since the last frame of
\* any type.
HEARTBEAT_TIMEOUT == 5

NoHbSession == [st |-> "none", age |-> 0, quiet |-> 0, by |-> "none"]

\* the agent connects and authenticates
agent_connects(g) ==
  /\ hbSession[g].st = "none"
  /\ hbSession' = [hbSession EXCEPT ![g] = [NoHbSession EXCEPT !.st = "open"]]
  /\ UNCHANGED nonHbVars

\* handle_heartbeat, on a frame of type heartbeat
handle_heartbeat(g) ==
  /\ hbSession[g].st = "open"
  /\ hbSession' = [hbSession EXCEPT ![g].age = 0, ![g].quiet = 0]
  /\ UNCHANGED nonHbVars

\* a frame of another type (move, timeout, error, status): last_heartbeat is
\* left as it is
handle_message(g) ==
  /\ hbSession[g].st = "open"
  /\ hbSession[g].quiet > 0
  /\ hbSession' = [hbSession EXCEPT ![g].quiet = 0]
  /\ UNCHANGED nonHbVars

\* the agent closes the connection: the read loop ends and the gateway runs
\* its disconnect handling
agent_closes(g) ==
  /\ hbSession[g].st = "open"
  /\ hbSession' = [hbSession EXCEPT ![g].st = "closed", ![g].by = "agent"]
  /\ UNCHANGED nonHbVars

\* monitor_heartbeats of the WebSocket gateway, every 5 s: a session whose
\* last heartbeat is older than HEARTBEAT_TIMEOUT is closed and
\* handle_disconnect runs.  The TCP gateway starts no such task, and its read
\* loop waits on readline() without a timeout.
monitor_heartbeats ==
  /\ hbSession["ws"].st = "open"
  /\ hbSession["ws"].age > HEARTBEAT_TIMEOUT
  /\ hbSession' = [hbSession EXCEPT !["ws"].st = "closed",
                                    !["ws"].by = "gateway"]
  /\ UNCHANGED nonHbVars

time_passes ==
  /\ \E g \in Gateways : hbSession[g].st = "open" /\ hbSession[g].quiet < MaxAge
  /\ hbSession' = [g \in Gateways |->
                     IF hbSession[g].st = "open"
                     THEN [hbSession[g] EXCEPT
                             !.age = Min(MaxAge, @ + 1),
                             !.quiet = Min(MaxAge, @ + 1)]
                     ELSE hbSession[g]]
  /\ UNCHANGED nonHbVars

InitHeartbeat ==
  hbSession = [g \in Gateways |-> NoHbSession]

NextHeartbeat ==
  \/ \E g \in Gateways : agent_connects(g)
  \/ \E g \in Gateways : handle_heartbeat(g)
  \/ \E g \in Gateways : handle_message(g)
  \/ \E g \in Gateways : agent_closes(g)
  \/ monitor_heartbeats
  \/ time_passes

\* ------------------------------------------------------- Swiss standings
\* compute_swiss_standings over rows of every kind: any match type, any
\* status, players inside and outside the bracket.  Points are doubled (a win
\* 2, a draw 1) to stay in the integers.
AllAgents == 1..(MaxStanding + 1)

\* bracket_agent_ids: the snapshot list of the bracket; the last of AllAgents
\* is in another bracket
bracket_agent_ids == 1..MaxStanding

Statuses == {"pending", "in_progress", "completed", "error", "cancelled"}

Winners == {"white", "black", "none"}

MatchRow ==
  [white_agent_id : AllAgents, black_agent_id : AllAgents, winner : Winners,
   match_type : {"tournament", "matchmaking"}, status : Statuses]

NoStandings == [computed |-> FALSE,
                of |-> [a \in bracket_agent_ids |->
                          [points |-> 0, matches_played |-> 0,
                           opponents |-> {}, buchholz |-> 0]]]

\* the WHERE clause without the test of the status
Selected_any_status(r, ids) ==
  /\ r.match_type = "tournament"
  /\ r.white_agent_id \in ids
  /\ r.black_agent_id \in ids

\* the WHERE clause of the SELECT
Selected(r, ids) ==
  /\ r.match_type = "tournament"
  /\ r.status = "completed"
  /\ r.white_agent_id \in ids
  /\ r.black_agent_id \in ids

RECURSIVE FetchAll(_, _)
FetchAll(rs, ids) ==
  IF rs = <<>> THEN <<>>
  ELSE IF Selected(Head(rs), ids) THEN <<Head(rs)>> \o FetchAll(Tail(rs), ids)
  ELSE FetchAll(Tail(rs), ids)

\* the body of `for match in matches`
ApplyMatch(st, match) ==
  LET w == match.white_agent_id
      b == match.black_agent_id
      first(s, me, other) ==
        IF other \in s[me].opponents THEN s
        ELSE [s EXCEPT ![me].opponents = @ \cup {other},
                       ![me].matches_played = @ + 1]
      s1 == first(st, w, b)
      s2 == first(s1, b, w)
  IN IF w \notin DOMAIN st \/ b \notin DOMAIN st THEN st
     ELSE IF match.winner = "white" THEN [s2 EXCEPT ![w].points = @ + 2]
     ELSE IF match.winner = "black" THEN [s2 EXCEPT ![b].points = @ + 2]
     ELSE [s2 EXCEPT ![w].points = @ + 1, ![b].points = @ + 1]

RECURSIVE ApplyMatches(_, _)
ApplyMatches(st, ms) ==
  IF ms = <<>> THEN st ELSE ApplyMatches(ApplyMatch(st, Head(ms)), Tail(ms))

RECURSIVE SumOpponents(_, _)
SumOpponents(st, S) ==
  IF S = {} THEN 0
  ELSE LET b == CHOOSE x \in S : TRUE
       IN (IF b \in DOMAIN st THEN st[b].points ELSE 0)
          + SumOpponents(st, S \ {b})

\* the second loop: buchholz = sum of the opponents' points
Buchholz(st) ==
  [a \in DOMAIN st |->
     [st[a] EXCEPT !.buchholz = SumOpponents(st, st[a].opponents)]]

compute_swiss_standings ==
  /\ ~standings.computed
  /\ standings' =
       [computed |-> TRUE,
        of |-> Buchholz(ApplyMatches(NoStandings.of,
                                     FetchAll(matchRows, bracket_agent_ids)))]
  /\ UNCHANGED matchRows
  /\ UNCHANGED nonStVars

\* a match row is inserted, or a row's match reaches the state r
match_row_written(r) ==
  /\ Len(matchRows) < MaxMatchRows
  /\ r.white_agent_id # r.black_agent_id
  /\ matchRows' = Append(matchRows, r)
  /\ standings' = NoStandings
  /\ UNCHANGED nonStVars

InitStandings ==
  /\ matchRows = <<>>
  /\ standings = NoStandings

NextStandings ==
  \/ \E r \in MatchRow : match_row_written(r)
  \/ compute_swiss_standings

\* -------------------------------------------------------- game time budget
\* The head of the ply loop of the two executors.  Time is in units of 150 s;
\* a ply of the model stands for the plies played in one such unit or less.
ExecutorPaths == {"server", "hybrid"}

\* GAME_TIME_BUDGET of extension.board_rules, 300 s
TOTAL_GAME_TIME_LIMIT == 2

PlyEnds == {"goes_on", "checkmate", "timeout"}

NoGame == [path |-> "none", pc |-> "none", elapsed |-> 0, moves |-> 0,
           termination |-> "none", winner |-> "none"]

\* run_match_task chooses the executor and the game starts
game_starts(path) ==
  /\ gameClock.pc = "none"
  /\ gameClock' = [NoGame EXCEPT !.path = path, !.pc = "head"]
  /\ UNCHANGED nonClockVars

\* run_match_local, `while moves < max_moves` and the check of the total
\* game time at the head of the ply
run_match_local_head ==
  /\ gameClock.path = "server"
  /\ gameClock.pc = "head"
  /\ gameClock' =
       IF gameClock.moves >= MaxPlies
       THEN [gameClock EXCEPT !.pc = "ended", !.termination = "max_moves",
                              !.winner = "none"]
       ELSE IF gameClock.elapsed >= TOTAL_GAME_TIME_LIMIT
       THEN [gameClock EXCEPT !.pc = "ended",
                              !.termination = "stuck_timeout",
                              !.winner = "draw"]
       ELSE [gameClock EXCEPT !.pc = "ply", !.moves = @ + 1]
  /\ UNCHANGED nonClockVars

\* run_hybrid_match, `while moves < max_moves`: the loop reads no clock
run_hybrid_match_head ==
  /\ gameClock.path = "hybrid"
  /\ gameClock.pc = "head"
  /\ gameClock' =
       IF gameClock.moves >= MaxPlies
       THEN [gameClock EXCEPT !.pc = "ended", !.termination = "max_moves",
                              !.winner = "draw"]
       ELSE [gameClock EXCEPT !.pc = "ply", !.moves = @ + 1]
  /\ UNCHANGED nonClockVars

\* the rest of the ply on either path: the mover answers after d units and
\* the game goes on or ends
ply_played(d, end) ==
  /\ gameClock.pc = "ply"
  /\ gameClock.elapsed + d <= MaxGameTime
  /\ gameClock' =
       IF end = "goes_on"
       THEN [gameClock EXCEPT !.pc = "head", !.elapsed = @ + d]
       ELSE [gameClock EXCEPT !.pc = "ended", !.elapsed = @ + d,
                              !.termination = end, !.winner = "mover"]
  /\ UNCHANGED nonClockVars

\* the executor returns the result
game_returns ==
  /\ gameClock.pc = "ended"
  /\ gameClock' = NoGame
  /\ UNCHANGED nonClockVars

InitGameClock == gameClock = NoGame

NextGameClock ==
  \/ \E path \in ExecutorPaths : game_starts(path)
  \/ run_match_local_head
  \/ run_hybrid_match_head
  \/ \E d \in 0..MaxPlyTime, end \in PlyEnds : ply_played(d, end)
  \/ game_returns

\* ------------------------------------------- move routing with two agents
\* The routing tables of the two gateways with two authenticated agents:
\* LocalAgentManager.pending_moves (keyed by game id) and
\* LocalAgentTCPServer.pending_requests (keyed by request id).  Request r
\* belongs to game r.  The field `by` records the agent whose session the
\* resolving frame arrived on; the program does not keep it.
LocalAgents == {"X", "Y"}

MoveReqs == 1..MaxMoveReqs

NoMoveReq == [st |-> "unused", agent |-> "none", gw |-> "none",
              outcome |-> "none", by |-> "none"]

Connected(gw) == {a \in LocalAgents : connectedAt[a] = gw}

\* handle_connect / handle_client: the agent authenticates at a gateway
handle_connect(gw, a) ==
  /\ connectedAt[a] = "none"
  /\ connectedAt' = [connectedAt EXCEPT ![a] = gw]
  /\ UNCHANGED moveReq
  /\ UNCHANGED nonRouteVars

\* redis_listener with handle_redis_move_request and request_move up to the
\* wait: the listener takes the request of a connected agent and stores the
\* future under the game id.  The listener awaits the answer, so it takes
\* the next request only after this one is resolved.
handle_redis_move_request(r, a) ==
  /\ moveReq[r].st = "unused"
  /\ a \in Connected("ws")
  /\ \A q \in MoveReqs : ~(moveReq[q].gw = "ws" /\ moveReq[q].st = "pending")
  /\ moveReq' = [moveReq EXCEPT ![r] =
                   [NoMoveReq EXCEPT !.st = "pending", !.agent = a,
                                     !.gw = "ws"]]
  /\ UNCHANGED connectedAt
  /\ UNCHANGED nonRouteVars

\* handle_move, handle_timeout and handle_error: a frame from the session of
\* agent a naming the game of request r
handle_move(a, kind, r) ==
  /\ a \in Connected("ws")
  /\ moveReq[r].gw = "ws"
  /\ moveReq[r].st = "pending"
  /\ moveReq' = [moveReq EXCEPT ![r] =
                   [@ EXCEPT !.st = "done", !.outcome = kind, !.by = a]]
  /\ UNCHANGED connectedAt
  /\ UNCHANGED nonRouteVars

\* handle_disconnect: the agent leaves the tables and every future that is
\* not done gets the disconnected result
handle_disconnect(a) ==
  /\ a \in Connected("ws")
  /\ connectedAt' = [connectedAt EXCEPT ![a] = "none"]
  /\ moveReq' = [r \in MoveReqs |->
                   IF moveReq[r].gw = "ws" /\ moveReq[r].st = "pending"
                   THEN [moveReq[r] EXCEPT !.st = "done",
                                           !.outcome = "disconnected"]
                   ELSE moveReq[r]]
  /\ UNCHANGED nonRouteVars

\* forward_redis_to_agent, a move_request for a connected agent: the
\* response channel is stored under the request id with its owner
forward_redis_to_agent(r, a) ==
  /\ moveReq[r].st = "unused"
  /\ a \in Connected("tcp")
  /\ moveReq' = [moveReq EXCEPT ![r] =
                   [NoMoveReq EXCEPT !.st = "pending", !.agent = a,
                                     !.gw = "tcp"]]
  /\ UNCHANGED connectedAt
  /\ UNCHANGED nonRouteVars

\* LocalAgentTCPServer.handle_message, types move, timeout and error: a
\* line from the session of agent a naming request r
handle_reply(a, kind, r) ==
  /\ a \in Connected("tcp")
  /\ moveReq[r].gw = "tcp"
  /\ moveReq[r].st = "pending"
  /\ moveReq' = [moveReq EXCEPT ![r] =
                   [@ EXCEPT !.st = "done", !.outcome = kind, !.by = a]]
  /\ UNCHANGED connectedAt
  /\ UNCHANGED nonRouteVars

\* handle_client's cleanup with notify_pending_disconnect: only the requests
\* owned by the agent are answered disconnected
notify_pending_disconnect(a) ==
  /\ a \in Connected("tcp")
  /\ connectedAt' = [connectedAt EXCEPT ![a] = "none"]
  /\ moveReq' = [r \in MoveReqs |->
                   IF /\ moveReq[r].gw = "tcp" /\ moveReq[r].st = "pending"
                      /\ moveReq[r].agent = a
                   THEN [moveReq[r] EXCEPT !.st = "done",
                                           !.outcome = "disconnected"]
                   ELSE moveReq[r]]
  /\ UNCHANGED nonRouteVars

\* LocalAgentBridge.request_move returns the answer to the game
move_request_returns(r) ==
  /\ moveReq[r].st = "done"
  /\ moveReq' = [moveReq EXCEPT ![r] = NoMoveReq]
  /\ UNCHANGED connectedAt
  /\ UNCHANGED nonRouteVars

InitRouting ==
  /\ connectedAt = [a \in LocalAgents |-> "none"]
  /\ moveReq = [r \in MoveReqs |-> NoMoveReq]

NextRouting ==
  \/ \E gw \in Gateways, a \in LocalAgents : handle_connect(gw, a)
  \/ \E r \in MoveReqs, a \in LocalAgents : handle_redis_move_request(r, a)
  \/ \E a \in LocalAgents, kind \in ReplyFrames, r \in MoveReqs :
       handle_move(a, kind, r)
  \/ \E a \in LocalAgents : handle_disconnect(a)
  \/ \E r \in MoveReqs, a \in LocalAgents : forward_redis_to_agent(r, a)
  \/ \E a \in LocalAgents, kind \in ReplyFrames, r \in MoveReqs :
       handle_reply(a, kind, r)
  \/ \E a \in LocalAgents : notify_pending_disconnect(a)
  \/ \E r \in MoveReqs : move_request_returns(r)

\* --------------------------------------------------------- rating updates
\* update_match_ratings and update_all_ratings for one matchmaking match
\* between two new agents.  Scores are doubled (win 2, draw 1, loss 0).
Colours == {"white", "black"}

EloTasks == 1..MaxEloTasks

\* the differences rating_b - rating_a from which the change after a win
\* with k_factor 32 grows by one, for differences from -300 to 300
EloSteps ==
  <<-273, -237, -205, -176, -149, -124, -100, -77, -54, -32, -10,
    11, 33, 55, 78, 101, 125, 150, 177, 206, 238, 274>>

\* round(32 * (1 - expected_a))
WinChange(d) == 5 + Cardinality({i \in DOMAIN EloSteps : EloSteps[i] <= d})

\* calculate_elo_change with k_factor 32 (fewer than 20 games played)
calculate_elo_change(rating_a, rating_b, score_a) ==
  LET d == rating_b - rating_a IN
  CASE score_a = 2 -> WinChange(d)
    [] score_a = 0 -> 0 - WinChange(0 - d)
    [] OTHER -> WinChange(d) - 16

NewRanking == [elo_rating |-> 1500, games_played |-> 0, wins |-> 0,
               losses |-> 0, draws |-> 0]

NoEloTask == [pc |-> "idle", white_change |-> 0, black_change |-> 0,
              white_score |-> 0]

\* white_score of a winner value; black_score is 2 minus it
white_score(winner) ==
  IF winner = "white" THEN 2 ELSE IF winner = "black" THEN 0 ELSE 1

\* run_match_task: the UPDATE to completed and update_match_ratings.delay
rated_match_completes(winner) ==
  /\ ratedMatch.status = "in_progress"
  /\ ratedMatch' = [status |-> "completed", winner |-> winner]
  /\ eloQ' = eloQ + 1
  /\ UNCHANGED <<eloTask, rankings, requeued>>
  /\ UNCHANGED nonRatingVars

\* update_all_ratings, every ten minutes: every match completed in the last
\* 24 hours is queued
update_all_ratings ==
  /\ ratedMatch.status = "completed"
  /\ requeued < MaxRequeues
  /\ eloQ' = eloQ + 1
  /\ requeued' = requeued + 1
  /\ UNCHANGED <<ratedMatch, eloTask, rankings>>
  /\ UNCHANGED nonRatingVars

\* update_match_ratings up to the changes: the SELECT of the completed match
\* with both rankings rows, the scores and the two rating changes
update_match_ratings_select(k) ==
  /\ eloTask[k].pc = "idle"
  /\ eloQ > 0
  /\ eloQ' = eloQ - 1
  /\ eloTask' = [eloTask EXCEPT ![k] =
       IF ratedMatch.status # "completed" THEN NoEloTask
       ELSE LET s == white_score(ratedMatch.winner)
                w == rankings["white"].elo_rating
                b == rankings["black"].elo_rating
            IN [pc |-> "computed", white_score |-> s,
                white_change |-> calculate_elo_change(w, b, s),
                black_change |-> calculate_elo_change(b, w, 2 - s)]]
  /\ UNCHANGED <<ratedMatch, rankings, requeued>>
  /\ UNCHANGED nonRatingVars

\* UPDATE rankings SET elo_rating = elo_rating + change, games_played =
\* games_played + 1, wins, losses, draws
UpdateRanking(row, change, score) ==
  [elo_rating |-> row.elo_rating + change,
   games_played |-> row.games_played + 1,
   wins |-> row.wins + (IF score = 2 THEN 1 ELSE 0),
   losses |-> row.losses + (IF score = 0 THEN 1 ELSE 0),
   draws |-> row.draws + (IF score = 1 THEN 1 ELSE 0)]

\* update_match_ratings from SELECT ... FOR UPDATE to the commit
update_match_ratings_update(k) ==
  /\ eloTask[k].pc = "computed"
  /\ rankings' =
       [c \in Colours |->
          IF c = "white"
          THEN UpdateRanking(rankings[c], eloTask[k].white_change,
                             eloTask[k].white_score)
          ELSE UpdateRanking(rankings[c], eloTask[k].black_change,
                             2 - eloTask[k].white_score)]
  /\ eloTask' = [eloTask EXCEPT ![k] = NoEloTask]
  /\ UNCHANGED <<ratedMatch, eloQ, requeued>>
  /\ UNCHANGED nonRatingVars

InitRatings ==
  /\ ratedMatch = [status |-> "in_progress", winner |-> "none"]
  /\ eloQ = 0
  /\ eloTask = [k \in EloTasks |-> NoEloTask]
  /\ rankings = [c \in Colours |-> NewRanking]
  /\ requeued = 0

NextRatings ==
  \/ \E winner \in {"white", "black", "draw"} : rated_match_completes(winner)
  \/ update_all_ratings
  \/ \E k \in EloTasks : update_match_ratings_select(k)
  \/ \E k \in EloTasks : update_match_ratings_update(k)

\* ---------------------------------------------------------- specification
InitBridge ==
  /\ lac = <<>>
  /\ presence = [a \in Agents |-> "none"]
  /\ matchStatus = [g \in Games |-> "in_progress"]
  /\ wsInbox = <<>> /\ tcpInbox = <<>>
  /\ inbox = [r \in Rids |-> <<>>]
  /\ sess = [s \in Sessions |-> [gw |-> "none", agent |-> "none", st |-> "unused"]]
  /\ wsConn = [a \in Agents |-> 0]
  /\ wsAuth = {}
  /\ wsStatus = [a \in Agents |-> "none"]
  /\ wsActive = [a \in Agents |-> {}]
  /\ wsPending = [g \in Games |-> "none"]
  /\ wsCur = 0
  /\ tcpConn = [a \in Agents |-> 0]
  /\ tcpStatus = [a \in Agents |-> "none"]
  /\ tcpPend = {}
  /\ tcpActive = [a \in Agents |-> {}]
  /\ req = [r \in Rids |-> [agent |-> "none", game |-> "none", st |-> "unused",
                            outcome |-> "none", via |-> "none",
                            held |-> FALSE, noReply |-> FALSE]]
  /\ gameSt = [g \in Games |-> "idle"]
  /\ sentTo = [r \in Rids |-> {}]
  /\ closedDuring = [r \in Rids |-> FALSE]

NextBridge ==
  \/ \E s \in Sessions, a \in Agents : ws_handle_connect(s, a)
  \/ \E s \in Sessions : ws_handle_connect_register(s)
  \/ \E s \in Sessions : client_close(s)
  \/ \E s \in Sessions : ws_handle_client_finally(s)
  \/ \E a \in Agents : ws_monitor_heartbeats(a)
  \/ \E s \in Sessions, st \in StatusFrames : ws_handle_status(s, st)
  \/ ws_redis_listener
  \/ \E s \in Sessions, r \in Rids, t \in ReplyFrames : ws_handle_move(s, r, t)
  \/ ws_request_move_done
  \/ \E s \in Sessions, a \in Agents : tcp_handle_client(s, a)
  \/ \E s \in Sessions, r \in Rids, t \in ReplyFrames : tcp_handle_message(s, r, t)
  \/ \E s \in Sessions, st \in StatusFrames : tcp_handle_status(s, st)
  \/ tcp_forward_redis_to_agent
  \/ \E s \in Sessions : tcp_handle_client_finally(s)
  \/ \E g \in Games : request_move(g)
  \/ \E r \in Rids, goOn \in BOOLEAN : request_move_recv(r, goOn)
  \/ \E r \in Rids : request_move_expire(r)

Init ==
  /\ InitBridge /\ InitRunner /\ InitPly /\ InitMatchmaking
  /\ InitRegistry /\ InitBrackets /\ InitSwiss /\ InitValidation
  /\ InitHeartbeat /\ InitPairing /\ InitStandings /\ InitGameClock
  /\ InitRouting /\ InitRatings

NextRunner ==
  \/ \E m \in Matches, kicked \in BOOLEAN : schedule_round_robin(m, kicked)
  \/ schedule_exhibition_matches
  \/ \E k \in Runs, m \in Matches : run_match_task(k, m)
  \/ \E k \in Runs : run_match_task_raises(k)
  \/ \E k \in Runs : run_hybrid_match_turn(k)
  \/ \E k \in Runs : run_hybrid_match_reply(k)
  \/ \E k \in Runs, out \in EndOutcomes : run_match_task_finish(k, out)
  \/ \E k \in Runs : worker_lost(k)
  \/ \E k \in Runs : task_time_limit(k)
  \/ cleanup_stuck_matches
  \/ is_tournament_time
  \/ initialize_tournament

\* the gateways and the bridge never read a match row's type: SpecBridge
\* starts from one value of it
InitGateways == Init /\ \A m \in Matches : matches[m].match_type = "exhibition"

SpecBridge == InitGateways /\ [][NextBridge]_vars

SpecRunner == Init /\ [][NextRunner]_vars

\* The match runner as the code stands: the executor call always raises
\* TypeError, so a run goes from run_match_task straight to the except
\* handler and no ply is played.
NextShipped ==
  \/ \E m \in Matches, kicked \in BOOLEAN : schedule_round_robin(m, kicked)
  \/ schedule_exhibition_matches
  \/ \E k \in Runs, m \in Matches : run_match_task(k, m)
  \/ \E k \in Runs : run_match_task_raises(k)
  \/ \E k \in Runs : worker_lost(k)
  \/ \E k \in Runs : task_time_limit(k)
  \/ cleanup_stuck_matches
  \/ is_tournament_time
  \/ initialize_tournament

SpecShipped == Init /\ [][NextShipped]_vars

\* The match runner with its periodic and queued tasks kept running: Celery
\* beat sends cleanup_stuck_matches every 60 s, and a worker takes every
\* queued schedule_round_robin message.
SpecSweep ==
  /\ Init /\ [][NextRunner]_vars
  /\ WF_vars(cleanup_stuck_matches)
  /\ WF_vars(\E m \in Matches : schedule_round_robin(m, TRUE))

SpecMatchmaking == InitGateways /\ [][NextMatchmaking]_vars

SpecRegistry == InitGateways /\ [][NextRegistry]_vars

\* the sessions' heartbeats: time passes, and the monitor task of the WebSocket
\* gateway runs again and again (while True ... await asyncio.sleep(5))
SpecHeartbeat ==
  /\ InitGateways
  /\ [][NextHeartbeat]_vars
  /\ WF_vars(monitor_heartbeats)
  /\ WF_vars(time_passes)

\* the validation queue, the Celery validation tasks and the validator service
SpecValidation == InitGateways /\ [][NextValidation]_vars

\* the Swiss scheduling of one bracket by concurrent runs
SpecSwiss == InitGateways /\ [][NextSwiss]_vars

\* the bracket snapshot, for every number of eligible agents up to MaxAgents
SpecBrackets == InitGateways /\ [][NextBrackets]_vars

\* one ply of a game, every input chosen afresh
SpecPly == InitGateways /\ [][NextPly]_vars

\* one pairing iteration of the matchmaker over agents of different ratings
SpecPairing == InitGateways /\ [][NextPairing]_vars

\* compute_swiss_standings over rows of every kind
SpecStandings == InitGateways /\ [][NextStandings]_vars

\* the ply loops of the two executors against the wall clock
SpecGameClock == InitGateways /\ [][NextGameClock]_vars

\* the routing tables of the gateways with two agents
SpecRouting == InitGateways /\ [][NextRouting]_vars

\* the rating updates of one completed match
SpecRatings == InitGateways /\ [][NextRatings]_vars

\* The match runner with messages that can be lost, its workers and its beat
\* tasks kept running: a worker takes every queued message, a started run
\* goes on to its end, and Celery beat sends cleanup_stuck_matches and
\* schedule_exhibition_matches again and again, and tournament_tick runs
\* initialize_tournament once the start date has passed.  The start date
\* itself is not forced to arrive.
NextLostTask ==
  \/ \E m \in Matches, kicked \in BOOLEAN : schedule_round_robin(m, kicked)
  \/ schedule_exhibition_matches
  \/ \E k \in Runs, m \in Matches : run_match_task(k, m)
  \/ \E k \in Runs : run_match_task_raises(k)
  \/ \E k \in Runs : run_hybrid_match_turn(k)
  \/ \E k \in Runs : run_hybrid_match_reply(k)
  \/ \E k \in Runs, out \in EndOutcomes : run_match_task_finish(k, out)
  \/ \E k \in Runs : worker_lost(k)
  \/ \E k \in Runs : task_time_limit(k)
  \/ \E m \in Matches : run_match_message_lost(m)
  \/ cleanup_stuck_matches
  \/ is_tournament_time
  \/ initialize_tournament

RunProgress ==
  \E k \in Runs :
    \/ run_match_task_raises(k)
    \/ run_hybrid_match_turn(k)
    \/ \E out \in EndOutcomes : run_match_task_finish(k, out)

SpecLostTask ==
  /\ Init /\ [][NextLostTask]_vars
  /\ WF_vars(\E k \in Runs, m \in Matches : run_match_task(k, m))
  /\ WF_vars(RunProgress)
  /\ WF_vars(cleanup_stuck_matches)
  /\ WF_vars(schedule_exhibition_matches)
  /\ WF_vars(initialize_tournament)
  /\ WF_vars(\E m \in Matches : schedule_round_robin(m, TRUE))

\* The Swiss scheduling of one bracket with matches that can also end in
\* error or be deleted, under the fairness the tournament relies on:
\* tournament_tick sends schedule_tournament_bracket every 5 s and a run goes
\* on to its end, every started match ends in some way, and a pair whose
\* match is started again and again has it completed at some time.
NextSwissFair ==
  \/ \E b \in BracketIds : schedule_all_brackets(b)
  \/ \E o \in AgentOrders : schedule_tournament_bracket_begin(1, o)
  \/ schedule_tournament_bracket_create(1)
  \/ \E p \in SwPairs, out \in Outcomes : tournament_match_completes(p, out)
  \/ \E p \in SwPairs : tournament_match_errors(p)
  \/ \E p \in SwPairs : tournament_match_deleted(p)

MatchEnds(p) ==
  \/ \E out \in Outcomes : tournament_match_completes(p, out)
  \/ tournament_match_errors(p)
  \/ tournament_match_deleted(p)

SpecSwissFair ==
  /\ InitGateways /\ [][NextSwissFair]_vars
  /\ WF_vars(\E b \in BracketIds : schedule_all_brackets(b))
  /\ WF_vars(\E o \in AgentOrders : schedule_tournament_bracket_begin(1, o))
  /\ WF_vars(schedule_tournament_bracket_create(1))
  /\ \A p \in SwPairs : WF_vars(MatchEnds(p))
  /\ \A p \in SwPairs :
       SF_vars(\E out \in Outcomes : tournament_match_completes(p, out))

\* ------------------------------------------------- properties, gateways
HeldSessions(a) == {s \in Sessions : sess[s].agent = a /\ Authenticated(s)}

Registered(s) ==
  IF sess[s].gw = "ws" THEN wsConn[sess[s].agent] = s
  ELSE tcpConn[sess[s].agent] = s

\* C1: in every reachable state every agent has at most one
\* local_agent_connections row whose status is not 'disconnected'.
C1_AtMostOneLiveRow ==
  \A a \in Agents : Cardinality(NonDisconnected(lac, a)) <= 1

\* C2: when session B of agent X was authenticated on a gateway after session
\* A of X on the same gateway, A's handler has finished its cleanup and B is
\* still open (and the latest session of X there), then B is the gateway's
\* registered session of X and X has exactly one non-disconnected row.
C2_SupersederStaysRegistered ==
  \A sa \in Sessions, sb \in Sessions :
    ( /\ sa < sb
      /\ sess[sa].gw = sess[sb].gw /\ sess[sa].agent = sess[sb].agent
      /\ sess[sa].st = "done" /\ Open(sb)
      /\ ~ \E sc \in Sessions : sc > sb /\ sess[sc].gw = sess[sb].gw
                                /\ sess[sc].agent = sess[sb].agent )
    => ( /\ Registered(sb)
         /\ Cardinality(NonDisconnected(lac, sess[sb].agent)) = 1 )

\* C3: every agent holds at most one authenticated session over both
\* gateways, and every move request is forwarded to at most one session.
C3_SingleSessionSingleForward ==
  /\ \A a \in Agents : Cardinality(HeldSessions(a)) <= 1
  /\ \A r \in Rids : Cardinality(sentTo[r]) <= 1

\* C4: the outcome of a RequestMove is fixed by the first reply it honours:
\* no step changes an outcome that has been set.
C4_FirstReplyWins ==
  [][\A r \in Rids : req[r].outcome # "none"
                     => req'[r].outcome = req[r].outcome]_vars

\* C4 witness: a RequestMove has returned a move while a gateway still holds
\* that request and will publish another answer for it.
C4_Witness ==
  \E r \in Rids : /\ req[r].st = "done" /\ req[r].outcome = "move"
                  /\ (r \in tcpPend \/ wsCur = r)

\* C5: a RequestMove during whose unanswered wait a session of its agent
\* ended (client close, heartbeat timeout, superseded) ends in
\* AgentDisconnected.
C5_CloseRaisesDisconnected ==
  \A r \in Rids : (req[r].st = "done" /\ closedDuring[r])
                  => req[r].outcome = "disconnected"

\* C6: a RequestMove whose wait expired without any reply raised
\* AgentDisconnected exactly when its agent held no authenticated session at
\* that moment, and returned a timeout exactly when it held one.
C6_ExpiryFollowsSession ==
  \A r \in Rids : (req[r].st = "done" /\ req[r].via = "expiry" /\ req[r].noReply)
                  => (req[r].outcome = "disconnected" <=> ~req[r].held)

\* ---------------------------------------------- properties, match runner
Terminal(st) == st \in {"completed", "error", "cancelled"}

C8_OneExecutionPerMatch ==
  \A m \in Matches : execs[m] <= 1

\* C9: a match status only moves forward: a completed, error or cancelled
\* row keeps its status (the row may be deleted), and an in_progress row
\* never becomes pending again.
C9_StatusOnlyMovesForward ==
  [][\A m \in Matches :
       /\ Terminal(matches[m].status) =>
            matches'[m].status \in {matches[m].status, "deleted"}
       /\ matches[m].status = "in_progress" => matches'[m].status # "pending"]_vars

\* C10: every completed match row has moves >= 4, and when run_match_task
\* finishes a game of at most 3 plies the match row and its game_states rows
\* are gone, no outcome is stored and no rating task is sent.
C10_ShortGamesLeaveNothing ==
  /\ [](\A m \in Matches :
          matches[m].status = "completed" => matches[m].moves >= 4)
  /\ [][\A k \in Runs, out \in EndOutcomes :
          (run_match_task_finish(k, out) /\ GameResult(runs[k], out).moves <= 3)
          => LET m == runs[k].m IN
             /\ matches'[m].status \in {"absent", "deleted"}
             /\ gameStates'[m] = {}
             /\ matches'[m].moves = 0
             /\ matches'[m].term = "none"
             /\ ratingQ' = ratingQ]_vars

\* a game of at most 3 plies that was neither cancelled nor an error has been
\* finished, and its match row and game_states rows are gone
C10_Witness ==
  \E m \in Matches :
    /\ m \in shortGames
    /\ matches[m].status = "deleted"
    /\ gameStates[m] = {}
    /\ ratingQ[m] = 0

C12_WellBehavedMatchCompletes ==
  \A m \in Matches :
    ~(matches[m].status = "error" /\ matches[m].term = "system_error")

\* C13: when the mover's local agent disconnects, run_match_task leaves no
\* match row and no game_states row, records no outcome and sends no rating
\* update, and for a matchmaking match outside tournament mode it queues
\* schedule_round_robin.
C13_DisconnectCancelsMatch ==
  [][\A k \in Runs :
       run_match_task_finish(k, "disconnected") =>
         LET m == runs[k].m IN
           /\ matches'[m].status = "deleted"
           /\ matches'[m].term = "none"
           /\ gameStates'[m] = {}
           /\ ratingQ' = ratingQ
           /\ (matches[m].match_type = "matchmaking" /\ ~tournamentTime)
                => kickQ' = kickQ + 1]_vars

C13_Witness ==
  \E m \in Matches :
    /\ lastTerm[m] = "cancelled"
    /\ matches[m].match_type = "matchmaking"
    /\ matches[m].status = "deleted"
    /\ kickQ > 0

\* C14: an exception raised while run_match_task runs leaves the match with
\* status error and termination system_error, except that a match with fewer
\* than 4 plies at that time is deleted together with its game states.
C14_ExceptionErrorOrDelete ==
  [][\A k \in Runs :
       run_match_task_raises(k) =>
         LET m == runs[k].m IN
           IF runs[k].moves < 4
           THEN matches'[m].status = "deleted" /\ gameStates'[m] = {}
           ELSE matches'[m].status = "error"
                /\ matches'[m].term = "system_error"]_vars

\* C15: a ply that ends in a timeout records the game state TIMEOUT(player)
\* with move_time_ms = agent_timeout * 1000, and the game ends with the
\* opponent as winner and termination timeout.
C15_TimeoutPlyRecordsLimit ==
  ply.notation = "TIMEOUT" =>
    /\ ply.move_time_ms = AGENT_TIMEOUT_SECONDS(ply.env)
    /\ ply.winner = Opponent(ply.player)
    /\ ply.termination = "timeout"

\* a match in_progress whose task is gone: its row stays in_progress and
\* grows older than 5 minutes
Stuck(m) == matches[m].status = "in_progress" /\ RunsOf(m) = {}

Swept(m) == matches[m].status = "error" /\ matches[m].term = "stuck_timeout"

\* C16: a match that stays in_progress for more than 5 minutes is eventually
\* set to error / stuck_timeout by cleanup_stuck_matches (unless a redelivered
\* task or the tournament start takes it out of that state first), and a sweep
\* that hits a matchmaking match queues schedule_round_robin outside
\* tournament mode.
C16_StuckMatchIsSwept ==
  /\ \A m \in Matches :
       Stuck(m) ~> (Swept(m) \/ RunsOf(m) # {} \/ matches[m].status = "cancelled")
  /\ [][cleanup_stuck_matches =>
          /\ \A m \in Matches : (Stuck(m) /\ ~Stuck(m)') => Swept(m)'
          /\ ((\E m \in Matches : Stuck(m) /\ ~Stuck(m)'
                                   /\ matches[m].match_type = "matchmaking")
              /\ ~tournamentTime) => kickQ' = kickQ + 1]_vars

C16_Witness ==
  \E m \in Matches :
    Swept(m) /\ matches[m].match_type = "matchmaking" /\ kickQ > 0 /\ lost > 0

\* C17: a run of schedule_round_robin that finds tournament mode active,
\* whether started by matchmaking_tick or taken from the queue after a match
\* or a sweep, inserts no match and queues no run_match_task.
C17_TournamentModeSchedulesNothing ==
  [][\A m \in Matches, kicked \in BOOLEAN :
       (schedule_round_robin(m, kicked) /\ tournamentTime) =>
         (matches' = matches /\ taskQ' = taskQ)]_vars

C17_Witness ==
  /\ skipped
  /\ \E m \in Matches : matches[m].match_type = "matchmaking"
                        /\ matches[m].status = "absent"

\* C18: the matchmaking matches pending or in_progress that use an executor
\* are never more than the match limit read by the latest scheduler run
\* plus 3.
C18_LiveMatchesWithinCapacity == current_matches <= latestLimit + 3

\* C19: a scheduler run that found exactly two eligible agents inserts at
\* most one match.
C19_TwoAgentsOneMatch ==
  [][\A t \in Ticks :
       (schedule_round_robin_attempt(t) /\ Cardinality(tick[t].all_agents) = 2)
         => tick[t].scheduled_count = 0]_vars

\* C20: a local agent is never in more than 4 matchmaking matches pending or
\* in_progress.
C20_LocalAgentCeiling ==
  \A a \in MMAgents :
    execution_mode[a] = "local" => active_matches(a) <= PER_AGENT_LIMIT

\* the executors whose record exists with a heartbeat at most
\* STALE_THRESHOLD old
FreshExecutors ==
  {w \in Workers : RecordExists(w)
                   /\ now - regRecord[w].last_heartbeat <= STALE_THRESHOLD}

\* C21: get_match_limit returns the sum of matches_per_executor over the
\* executors with a fresh heartbeat: k when there is exactly one and it
\* reports k, FALLBACK_MAX_MATCHES when there is none.
C21_MatchLimitIsFreshSum ==
  [][get_match_limit =>
       /\ regResult'.limit = IF FreshExecutors = {} THEN FALLBACK_MAX_MATCHES
                             ELSE SumCapacity(FreshExecutors)
       /\ \A w \in Workers :
            FreshExecutors = {w}
              => regResult'.limit = matches_per_executor(w)]_vars

C21_Witness ==
  /\ regResult.limit = 1
  /\ \E w \in Workers : regRecord[w].matches_per_executor = 1
                        /\ regResult.executors = {w}
  /\ \E v \in Workers : v \notin regResult.executors /\ worker[v].st = "up"

C22_BusDownTickSchedules ==
  [][\A t \in Ticks :
       (/\ schedule_round_robin_begin(t)
        /\ ~busUp
        /\ Cardinality(all_agents) >= 2
        /\ FALLBACK_MAX_MATCHES - current_matches > 0)
       => /\ tick'[t].pc = "loop"
          /\ tick'[t].slots_available
               = FALLBACK_MAX_MATCHES - current_matches]_vars

Members(seq) == {seq[i] : i \in DOMAIN seq}

\* C24: once the snapshot is written, the membership of each bracket does not
\* change until the snapshot expires, whichever process runs the
\* initialization again and whatever the ratings have become.
C24_SnapshotMembershipFixed ==
  [][bracketCache.set /\ bracketCache'.set
       => /\ Members(bracketCache'.brackets.challenger)
               = Members(bracketCache.brackets.challenger)
          /\ Members(bracketCache'.brackets.contender)
               = Members(bracketCache.brackets.contender)
          /\ Members(bracketCache'.brackets.elite)
               = Members(bracketCache.brackets.elite)]_vars

\* C25: the snapshot holds every eligible agent exactly once, in one of the
\* three brackets; fewer than 8 agents are all in contender; 16 agents are
\* split 4, 8, 4.
C25_SnapshotPartitions ==
  [][\A p \in Procs, flip \in BOOLEAN :
       snapshot_brackets(p, flip) =>
         LET b == bracketCache'.brackets
             all == b.challenger \o b.contender \o b.elite
         IN /\ Len(all) = total
            /\ Members(all) = 1..total
            /\ \A i, j \in 1..Len(all) : i < j => elo(all[i]) <= elo(all[j])
            /\ total < 8 => Len(b.contender) = total
            /\ total = 16 => /\ Len(b.challenger) = 4
                             /\ Len(b.contender) = 8
                             /\ Len(b.elite) = 4]_vars

C25_Witness ==
  /\ bracketCache.set
  /\ total = 16
  /\ Len(bracketCache.brackets.challenger) = 4
  /\ Len(bracketCache.brackets.contender) = 8
  /\ Len(bracketCache.brackets.elite) = 4
  /\ bracketCache.brackets.challenger[2] = 3

\* C26: the pairings one run computes for the bracket (the step of
\* schedule_tournament_bracket that goes on to create matches) hold each agent
\* at most once and hold no pair of agents that have a completed match
\* between them.
C26_PairingsDisjointNoRematch ==
  [][\A t \in Scheds :
       (sched[t].pc = "idle" /\ sched'[t].pc = "create") =>
         LET ps == sched'[t].pairings IN
         /\ \A i, j \in DOMAIN ps :
              i # j => {ps[i][1], ps[i][2]} \cap {ps[j][1], ps[j][2]} = {}
         /\ \A i \in DOMAIN ps :
              /\ ps[i][1] # ps[i][2]
              /\ pairRow[ps[i]] \notin Outcomes]_vars

\* a run has computed a single pairing in a round where four matches are
\* completed
C26_Witness ==
  \E t \in Scheds :
    /\ sched[t].pc = "create"
    /\ Len(sched[t].pairings) = 1
    /\ Cardinality({p \in SwPairs : pairRow[p] \in Outcomes}) >= 4
    /\ active_count = 0

\* C27: the bracket never has more active tournament matches than its
\* ceiling, and a run inserts a match only if every active match of the
\* bracket was inserted by that same run.
C27_BracketCeiling ==
  [][/\ active_count' <= max_concurrent
     /\ \A t \in Scheds :
          (schedule_tournament_bracket_create(t) /\ pairRow' # pairRow)
            => active_count <= sched[t].created]_vars

\* C28: no validation queue entry ever has more than one Agent row (with its
\* Ranking row) created for it.
C28_OneAgentPerEntry ==
  \A q \in Entries : created[q] <= 1

\* C29: on both transports, a session from which no frame has arrived for
\* more than HEARTBEAT_TIMEOUT is eventually closed by its gateway (unless a
\* frame arrives or the agent closes first).
C29_SilentSessionClosed ==
  \A g \in Gateways :
    (hbSession[g].st = "open" /\ hbSession[g].quiet > HEARTBEAT_TIMEOUT)
      ~> (hbSession[g].st = "closed" \/ hbSession[g].quiet <= HEARTBEAT_TIMEOUT)

\* C30: a ply whose mover disconnected is cancelled; otherwise an explicit
\* timeout or an elapsed time above agent_timeout + 1 s forfeits with
\* termination timeout and the ply TIMEOUT(player), whatever the move is;
\* otherwise a null piece or move, a piece of the opponent or a move that
\* fails validation forfeits with white_invalid / black_invalid and the ply
\* INVALID(player); a forfeit is won by the opponent.
C30_ClassificationOrder ==
  ply.path # "none" =>
    IF ply.answer = "disconnected"
    THEN ply.termination = "cancelled" /\ ply.winner = "none"
         /\ ply.notation = "none"
    ELSE IF \/ ply.explicit
            \/ ply.elapsed > AGENT_TIMEOUT_SECONDS(ply.env) + TIMEOUT_CHECK_BUFFER
    THEN ply.termination = "timeout" /\ ply.winner = Opponent(ply.player)
         /\ ply.notation = "TIMEOUT"
    ELSE IF ply.kind \in {"null", "opponent", "illegal"}
    THEN /\ ply.termination
              = (IF ply.player = "white" THEN "white_invalid" ELSE "black_invalid")
         /\ ply.winner = Opponent(ply.player)
         /\ ply.notation = "INVALID"
    ELSE ply.termination = "none" /\ ply.winner = "none"
         /\ ply.notation = "none"

\* a move of the opponent's piece that arrives after the limit: a timeout
C30_Witness ==
  /\ ply.path = "hybrid"
  /\ ply.answer = "move"
  /\ ply.kind = "opponent"
  /\ ~ply.explicit
  /\ ply.termination = "timeout"
  /\ ply.notation = "TIMEOUT"

\* ---- C31
\* the rating difference of an index pair of the order chosen
PairDiff(ij) ==
  Abs(pool.elo_rating[matched.order[ij[1]]]
      - pool.elo_rating[matched.order[ij[2]]])

IndexPairs == {ij \in PoolAgents \X PoolAgents : ij[1] < ij[2]}

\* C31: in a pairing iteration, if some pair of eligible agents differs by at
\* most 600 the chosen pair has the smallest rating difference of all pairs
\* (so it lies in the narrowest of the ranges 200, 400, 600 that holds a
\* pair); otherwise the first two agents of the order are paired.
C31_SmallestDifferenceChosen ==
  pool.pc = "paired" =>
    IF \E ij \in IndexPairs : PairDiff(ij) <= 3 * ELO_RANGE
    THEN \A ij \in IndexPairs : PairDiff(matched.pair) <= PairDiff(ij)
    ELSE matched.pair = <<1, 2>>

\* ---- C32
\* the rows that count for the bracket
Counting ==
  {i \in DOMAIN matchRows :
     /\ matchRows[i].match_type = "tournament"
     /\ matchRows[i].status = "completed"
     /\ matchRows[i].white_agent_id \in bracket_agent_ids
     /\ matchRows[i].black_agent_id \in bracket_agent_ids}

\* doubled points row i gives to agent a
RowPoints(i, a) ==
  LET r == matchRows[i] IN
  IF a \notin {r.white_agent_id, r.black_agent_id} THEN 0
  ELSE IF r.winner = "none" THEN 1
  ELSE IF (r.winner = "white") = (a = r.white_agent_id) THEN 2 ELSE 0

RECURSIVE SumRows(_, _)
SumRows(S, a) ==
  IF S = {} THEN 0
  ELSE LET i == CHOOSE x \in S : TRUE IN RowPoints(i, a) + SumRows(S \ {i}, a)

RECURSIVE SumOver(_, _)
SumOver(f, S) ==
  IF S = {} THEN 0
  ELSE LET x == CHOOSE y \in S : TRUE IN f[x] + SumOver(f, S \ {x})

Faced(a) ==
  {b \in bracket_agent_ids \ {a} :
     \E i \in Counting :
       {matchRows[i].white_agent_id, matchRows[i].black_agent_id} = {a, b}}

\* C32: the standings of a bracket come only from the completed tournament
\* matches between two of its players: a win gives 1 point, a draw 0.5 to
\* each, the bracket's points total the number of such matches, and a
\* player's Buchholz is the sum of the points of the opponents faced; rows of
\* any other status or type, or with a player outside, give nothing.
C32_StandingsFromCompletedMatches ==
  standings.computed =>
    LET pts == [a \in bracket_agent_ids |-> standings.of[a].points] IN
    /\ \A a \in bracket_agent_ids :
         /\ pts[a] = SumRows(Counting, a)
         /\ standings.of[a].opponents = Faced(a)
         /\ standings.of[a].buchholz = SumOver(pts, Faced(a))
    /\ SumOver(pts, bracket_agent_ids) = 2 * Cardinality(Counting)

\* standings computed over a counting draw, a pending row being ignored
C32_Witness ==
  /\ standings.computed
  /\ Cardinality(Counting) = 1
  /\ Len(matchRows) = 2
  /\ \E i \in Counting : matchRows[i].winner = "none"
  /\ \E i \in DOMAIN matchRows :
       /\ matchRows[i].match_type = "tournament"
       /\ matchRows[i].status = "pending"
       /\ matchRows[i].white_agent_id \in bracket_agent_ids
       /\ matchRows[i].black_agent_id \in bracket_agent_ids

\* ---- C33
\* the documented termination taxonomy
TerminationTaxonomy ==
  {"checkmate", "stalemate", "draw", "insufficient_material", "timeout",
   "white_invalid", "black_invalid", "white_error", "black_error",
   "cancelled", "stuck_timeout", "max_moves", "game_over"}

\* C33 as stated: every termination a game returns or run_match_task writes
\* to a match row is one of the thirteen values of the taxonomy.
C33_TerminationInTaxonomy ==
  \A m \in Matches :
    /\ lastTerm[m] \in TerminationTaxonomy \cup {"none"}
    /\ matches[m].term \in TerminationTaxonomy \cup {"none"}

\* C33 amended: every termination a game returns is one of the thirteen
\* values, and every termination written to a match row is one of them or
\* system_error, which the handler of an exception writes.
C33_TerminationInTaxonomyOrSystemError ==
  \A m \in Matches :
    /\ lastTerm[m] \in TerminationTaxonomy \cup {"none"}
    /\ matches[m].term \in TerminationTaxonomy \cup {"none", "system_error"}

\* a row written by the exception handler, and a row written from a result
C33_Witness ==
  \E m \in Matches :
    /\ matches[m].term = "system_error"
    /\ lastTerm[m] \in TerminationTaxonomy

\* ---- C34
\* C34: on either executor path, at the head of a ply reached after the
\* wall-clock time since the start of the game has exceeded the game time
\* budget, the game ends as a draw with termination stuck_timeout.
C34_StuckTimeoutOnEveryPath ==
  [][(/\ gameClock.pc = "head"
      /\ gameClock.moves < MaxPlies
      /\ gameClock.elapsed > TOTAL_GAME_TIME_LIMIT
      /\ gameClock'.pc # "head")
     => (/\ gameClock'.pc = "ended"
         /\ gameClock'.termination = "stuck_timeout"
         /\ gameClock'.winner = "draw")]_vars

\* ---- C35
\* C35: closing the session of one agent completes with the disconnected
\* result only requests addressed to that agent: a request waiting on another
\* agent of the same gateway stays pending (so its match is not cancelled).
C35_CloseAffectsOnlyItsAgent ==
  [][\A r \in MoveReqs :
       (/\ moveReq[r].st = "pending"
        /\ moveReq'[r].outcome = "disconnected")
       => connectedAt'[moveReq[r].agent] = "none"]_vars

\* ---- C36
\* C36: a move, timeout or error frame resolves a pending request only when
\* it arrives on the session of the agent the request was addressed to.
C36_OnlyAddresseeResolves ==
  [][\A r \in MoveReqs :
       (/\ moveReq[r].st = "pending"
        /\ moveReq'[r].st = "done"
        /\ moveReq'[r].outcome \in ReplyFrames)
       => moveReq'[r].by = moveReq[r].agent]_vars

\* ---- C37
\* C37: a completed match changes its two agents' rating, games_played and
\* win / loss / draw counters exactly once, however many times the rating
\* update task is queued for it.
C37_RatedExactlyOnce ==
  \A c \in Colours :
    LET row == rankings[c]
        s == IF c = "white" THEN white_score(ratedMatch.winner)
             ELSE 2 - white_score(ratedMatch.winner)
    IN /\ row.games_played <= 1
       /\ row.wins + row.losses + row.draws = row.games_played
       /\ row.elo_rating =
            IF row.games_played = 0 THEN 1500
            ELSE 1500 + calculate_elo_change(1500, 1500, s)

\* ---- C38
Ended(m) ==
  matches[m].status \in {"completed", "error", "cancelled", "deleted"}

\* C38: every match row the matchmaker inserts eventually reaches a terminal
\* status (completed, error, cancelled) or is deleted, also when its queued
\* task is lost or its worker is lost; no match stays pending forever.
C38_InsertedMatchEnds ==
  \A m \in Matches :
    (matches[m].match_type = "matchmaking" /\ matches[m].status = "pending")
      ~> Ended(m)

\* ---- C39
\* min(s['matches_played']) >= total_rounds
BracketComplete ==
  \A a \in BracketAgents :
    Cardinality(opponents(a)) >= calculate_total_rounds(BracketSize)

\* C39: with tournament ticks kept running and every started match ending,
\* a bracket of at least two players eventually becomes complete, also when
\* some of its matches end with status error, are swept or are deleted.
C39_BracketEventuallyComplete ==
  (bracket_id # "none") ~> BracketComplete

\* the record of w is stored as register_executor wrote it: it has the field
\* matches_per_executor, which send_heartbeat never writes
RegisteredRecord(w) ==
  RecordExists(w) /\ regRecord[w].matches_per_executor # -1

\* C40: a worker whose record was deleted or has expired, and for which
\* register_executor has not run since, is not returned by
\* get_active_executors and adds nothing to the sum of get_match_limit,
\* also when a send_heartbeat of that worker ran after the deletion or expiry.
C40_NoReportWithoutRegister ==
  [][(get_active_executors \/ get_match_limit) =>
       LET registered == {w \in regResult'.executors : RegisteredRecord(w)} IN
       /\ regResult'.executors = registered
       /\ get_match_limit =>
            regResult'.limit = IF registered = {} THEN FALLBACK_MAX_MATCHES
                               ELSE SumCapacity(registered)]_vars

====
